---- MODULE Spec2Model ----
(***************************************************************************)
(* abbs-meta-collector: the commit index (CommitDb), the package metadata  *)
(* store (AbbsDb) and the orchestrator (do_scan_and_update) over a small   *)
(* git repository.                                                         *)
(***************************************************************************)
EXTENDS Integers, Sequences, FiniteSets, Bags, TLC

(* ------------------------------ bounds --------------------------------- *)

\* commits the repository may hold
MaxCommits == 3
\* orchestrator runs that may be started
MaxRuns == 3
\* add_package / delete_package calls issued directly on the store
MaxCalls == 3

(* --------------------------- naming of things -------------------------- *)

\* the configured repository: tree name and tracked branch (Repo.name, Repo.branch)
TreeName == "T"
MainBranch == "stable"

\* Option<Oid>::None
NoCommit == 0

\* Option<u32>::None of PackageError.line / col
NoPos == -1

(* ------------------------------- paths --------------------------------- *)
\* A path is the sequence of its components.

SpecDoc == <<"extra-doc", "jade", "spec">>
DefDoc == <<"extra-doc", "jade", "autobuild", "defines">>
DefSub == <<"extra-doc", "jade", "01-sub", "defines">>
PatchDoc == <<"extra-doc", "jade", "autobuild", "patches", "fix">>
SpecMisc == <<"extra-misc", "jade", "spec">>
DefMisc == <<"extra-misc", "jade", "autobuild", "defines">>

\* every file path of the model, in git's tree order (the order of diff deltas
\* and of tree walks)
PathOrder == <<DefSub, DefDoc, PatchDoc, SpecDoc, DefMisc, SpecMisc>>

Range(s) == {s[i] : i \in 1..Len(s)}

Paths == Range(PathOrder)

\* Path::file_name
FileName(p) == p[Len(p)]

\* Path::parent
Parent(p) == SubSeq(p, 1, Len(p) - 1)

\* Path::ancestors: the path itself, its parent, ..., the empty path
Ancestors(p) == [i \in 1..(Len(p) + 1) |-> SubSeq(p, 1, Len(p) + 1 - i)]

IsPrefix(d, p) == Len(d) <= Len(p) /\ SubSeq(p, 1, Len(d)) = d

\* the paths of a set, as the sequence git yields them
InOrder(ps) == SelectSeq(PathOrder, LAMBDA p : p \in ps)

(* ------------------------------- blobs --------------------------------- *)
\* A tree maps the file paths it holds to blobs; a blob is named by its text.

SpecBlobs == {"VER=1", "VER=2"}
DefinesBlobs == {"ok", "ok2", "err", "bad"}

EmptyCtx == <<>>

\* abbs_meta_apml::parse: the assignments a source makes
ParseAssign(src) ==
    CASE src = "VER=1" -> ("VER" :> "1")
      [] src = "VER=2" -> ("VER" :> "2") @@ ("REL" :> "1")
      [] src = "ok" -> ("PKGNAME" :> "jade") @@ ("PKGSEC" :> "doc")
                        @@ ("PKGDES" :> "d1") @@ ("PKGDEP" :> "glib")
      [] src = "ok2" -> ("PKGNAME" :> "jade") @@ ("PKGSEC" :> "doc")
                        @@ ("PKGDES" :> "d2")
      [] src = "err" -> ("PKGNAME" :> "jade") @@ ("PKGDES" :> "d1")
      [] OTHER -> EmptyCtx

\* abbs_meta_apml::parse: the errors it reports, as <<line, col, message>>
ParseErrs(src) ==
    CASE src = "err" -> << <<3, 5, "syntax">> >>
      [] src = "bad" -> << <<1, 1, "syntax">> >>
      [] OTHER -> << >>

\* parse(source, &mut ctx): later assignments override earlier ones
Parse(src, ctx) == [ctx |-> ParseAssign(src) @@ ctx, errs |-> ParseErrs(src)]

CtxRemove(c, k) == [x \in (DOMAIN c) \ {k} |-> c[x]]

CtxMove(c, old, new) ==
    IF old \in DOMAIN c THEN (new :> c[old]) @@ CtxRemove(c, old) ELSE c

spec_decorator(c) == CtxMove(CtxMove(c, "VER", "PKGVER"), "REL", "PKGREL")

\* "{category}-{section}" of the first path component
CatSec(dir) ==
    CASE dir = "extra-doc" -> <<"extra", "doc">>
      [] dir = "extra-misc" -> <<"extra", "misc">>
      [] OTHER -> <<"", "">>

CtxGet(c, k, dflt) == IF k \in DOMAIN c THEN c[k] ELSE dflt

\* abbs_meta_tree::Package::from(ctx, spec_path)
PackageFrom(ctx, spec_path) ==
    IF {"PKGNAME", "PKGVER"} \subseteq DOMAIN ctx
    THEN [ok |-> TRUE,
          pkg |-> [name |-> ctx["PKGNAME"],
                   version |-> ctx["PKGVER"],
                   release |-> IF "PKGREL" \in DOMAIN ctx THEN 1 ELSE 0,
                   epoch |-> 0,
                   category |-> CatSec(spec_path[1])[1],
                   section |-> CatSec(spec_path[1])[2],
                   pkg_section |-> CtxGet(ctx, "PKGSEC", ""),
                   directory |-> spec_path[2],
                   description |-> CtxGet(ctx, "PKGDES", ""),
                   spec_path |-> spec_path,
                   dependencies |-> IF "PKGDEP" \in DOMAIN ctx
                                    THEN {<<"default", ctx["PKGDEP"]>>} ELSE {}],
          msg |-> ""]
    ELSE [ok |-> FALSE, pkg |-> <<>>, msg |-> "missing field"]

(* ------------------------------ git ------------------------------------ *)
\* graph: the commits of the repository, graph[c] = [parents, tree]; a commit id
\* is its index, and commit time grows with it.  branches: branch name -> tip.

VARIABLES graph, branches

EmptyTree == <<>>

TreeOk == (DefDoc :> "ok") @@ (SpecDoc :> "VER=1")
TreeNewVer == (DefDoc :> "ok") @@ (PatchDoc :> "x") @@ (SpecDoc :> "VER=2")
TreeErr == (DefDoc :> "err") @@ (SpecDoc :> "VER=1")
TreeBad == (DefDoc :> "bad") @@ (SpecDoc :> "VER=1")
TreeTwoDefines == (DefSub :> "ok2") @@ (DefDoc :> "ok") @@ (SpecDoc :> "VER=1")
TreeMoved == (DefMisc :> "ok") @@ (SpecMisc :> "VER=1")
TreeNoDefines == (PatchDoc :> "x") @@ (SpecDoc :> "VER=1")

\* the trees a new commit may carry
TreeChoices ==
    {TreeOk, TreeNewVer, TreeErr, TreeBad, TreeTwoDefines, TreeMoved,
     TreeNoDefines, EmptyTree}

CommitTime(c) == c

TreeOf(g, c) == g[c].tree

\* Tree::get_path: a file of the tree, or a directory above one
TreeHasPath(tree, p) ==
    /\ Len(p) > 0
    /\ \E f \in DOMAIN tree : IsPrefix(p, f)

HasFile(g, c, p) == c \in 1..Len(g) /\ p \in DOMAIN TreeOf(g, c)

\* Repository::read_file
ReadFile(g, c, p) == TreeOf(g, c)[p]

\* diff_tree_to_tree(old, new): the deltas, in path order
DeltaStatus(old, new, p) ==
    CASE p \notin DOMAIN old -> "Added"
      [] p \notin DOMAIN new -> "Deleted"
      [] OTHER -> "Modified"

Deltas(old, new, ps) ==
    [i \in 1..Len(ps) |-> [path |-> ps[i], status |-> DeltaStatus(old, new, ps[i])]]

DiffTrees(old, new) ==
    Deltas(old, new,
           InOrder({p \in (DOMAIN old) \cup (DOMAIN new) :
                      IF p \in DOMAIN old /\ p \in DOMAIN new THEN old[p] # new[p]
                      ELSE TRUE}))

\* the commits reachable from c (c included)
RECURSIVE Reach(_, _)
Reach(g, c) ==
    IF c = NoCommit THEN {}
    ELSE {c} \cup UNION {Reach(g, g[c].parents[i]) : i \in 1..Len(g[c].parents)}

\* a set of commit ids, newest first (revwalk's default order)
RECURSIVE NewestFirst(_)
NewestFirst(cs) ==
    IF cs = {} THEN << >>
    ELSE LET m == CHOOSE x \in cs : \A y \in cs : y <= x
         IN <<m>> \o NewestFirst(cs \ {m})

\* the prefix of s before the first x (itertools while_some over from.ne(oid))
RECURSIVE TakeUntil(_, _)
TakeUntil(s, x) ==
    IF s = << >> \/ Head(s) = x THEN << >>
    ELSE <<Head(s)>> \o TakeUntil(Tail(s), x)

\* Repository::get_commits_by_range
get_commits_by_range(g, from, to) == TakeUntil(NewestFirst(Reach(g, to)), from)

RECURSIVE Flatten(_)
Flatten(ss) == IF ss = << >> THEN << >> ELSE Head(ss) \o Flatten(Tail(ss))

\* one commit of Repository::scan_commits: the changed files against the first parent
ScannedDeltas(c, d) ==
    [i \in 1..Len(d) |->
       [commit_id |-> c, time |-> CommitTime(c), path |-> d[i].path, status |-> d[i].status]]

ScanCommit(g, c) ==
    IF Len(g[c].parents) > 2 THEN << >>
    ELSE ScannedDeltas(c,
            DiffTrees(IF Len(g[c].parents) = 0 THEN EmptyTree
                      ELSE TreeOf(g, g[c].parents[1]),
                      TreeOf(g, c)))

\* Repository::scan_commits
scan_commits(g, oids) == Flatten([i \in 1..Len(oids) |-> ScanCommit(g, oids[i])])

(* --------------------------- package parsing --------------------------- *)

\* the PackageError a parser error turns into
ParseError(pkg_name, path, e) ==
    [package |-> pkg_name, path |-> path, message |-> e[3],
     err_type |-> "parse", line |-> e[1], col |-> e[2]]

\* the PackageErrors of the parser errors of one file
ParseErrorsOf(pkg_name, path, errs) ==
    [i \in 1..Len(errs) |-> ParseError(pkg_name, path, errs[i])]

\* parse_spec_and_defines, lines 102-119: the defines parsed after the spec
ParsedDefines(pkg_name, spec_path, defines_path, r1, defines) ==
    [some |-> TRUE,
     context |-> Parse(defines, spec_decorator(r1.ctx)).ctx,
     errors |-> ParseErrorsOf(pkg_name, spec_path, r1.errs)
                \o ParseErrorsOf(pkg_name, defines_path, ParseErrs(defines))]

\* parse_spec_and_defines
parse_spec_and_defines(g, commit, spec_path, defines_path) ==
    IF ~HasFile(g, commit, spec_path) \/ ~HasFile(g, commit, defines_path)
       \/ Len(defines_path) < 3
    THEN [some |-> FALSE]
    ELSE ParsedDefines(defines_path[Len(defines_path) - 2], spec_path, defines_path,
                       Parse(ReadFile(g, commit, spec_path), EmptyCtx),
                       ReadFile(g, commit, defines_path))

\* scan_package, lines 56-73: the parsed context handed to the builder
BuiltPackage(parsed, built, defines_path) ==
    IF built.ok
    THEN [some |-> TRUE, pkg |-> built.pkg, context |-> parsed.context,
          errors |-> parsed.errors]
    ELSE [some |-> FALSE,
          errors |-> Append(parsed.errors,
             [package |-> defines_path[Len(defines_path) - 2],
              path |-> SubSeq(defines_path, 1, Len(defines_path) - 2),
              message |-> built.msg, err_type |-> "package",
              line |-> NoPos, col |-> NoPos])]

ScannedPackage(parsed, spec_path, defines_path) ==
    IF ~parsed.some THEN [some |-> FALSE, errors |-> << >>]
    ELSE BuiltPackage(parsed, PackageFrom(parsed.context, spec_path), defines_path)

\* scan_package: (Option<(Package, Context)>, Vec<PackageError>)
scan_package(g, commit, spec_path, defines_path) ==
    ScannedPackage(parse_spec_and_defines(g, commit, spec_path, defines_path),
                   spec_path, defines_path)

\* spec_path_to_defines_path: every "defines" below the directory of the spec, in
\* walk order; none when the directory is not in the commit's tree
spec_path_to_defines_path(g, commit, spec_path) ==
    IF commit \notin 1..Len(g) \/ ~TreeHasPath(TreeOf(g, commit), Parent(spec_path))
    THEN [ok |-> FALSE, paths |-> << >>]
    ELSE [ok |-> TRUE,
          paths |-> InOrder({p \in DOMAIN TreeOf(g, commit) :
                               IsPrefix(Parent(spec_path), p) /\ FileName(p) = "defines"})]

\* defines_path_to_spec_path: <pkg>/<dir>/defines -> <pkg>/spec
defines_path_to_spec_path(defines_path) ==
    IF Len(defines_path) < 2 THEN [ok |-> FALSE, path |-> << >>]
    ELSE [ok |-> TRUE, path |-> Append(SubSeq(defines_path, 1, Len(defines_path) - 2), "spec")]

\* the ancestors searched from the root down: the outermost "defines" wins
RECURSIVE FirstDefinesOutermost(_, _)
FirstDefinesOutermost(tree, anc) ==
    IF anc = << >> THEN [ok |-> FALSE, paths |-> << >>]
    ELSE IF TreeHasPath(tree, Append(anc[Len(anc)], "defines"))
         THEN [ok |-> TRUE, paths |-> << Append(anc[Len(anc)], "defines") >>]
         ELSE FirstDefinesOutermost(tree, SubSeq(anc, 1, Len(anc) - 1))

\* the first ancestor of path under which "defines" is in the tree
RECURSIVE FirstDefines(_, _)
FirstDefines(tree, anc) ==
    IF anc = << >> THEN [ok |-> FALSE, paths |-> << >>]
    ELSE IF TreeHasPath(tree, Append(Head(anc), "defines"))
         THEN [ok |-> TRUE, paths |-> << Append(Head(anc), "defines") >>]
         ELSE FirstDefines(tree, Tail(anc))

\* path_to_defines_path
path_to_defines_path(g, commit, path) ==
    CASE FileName(path) = "defines" -> [ok |-> TRUE, paths |-> <<path>>]
      [] FileName(path) = "spec" -> spec_path_to_defines_path(g, commit, path)
      [] OTHER -> FirstDefines(TreeOf(g, commit), Ancestors(path))

(* --------------------------- commit database --------------------------- *)
\* commits: the rows of table commits; histories: the rows of table histories
\* in insertion order, each stamped by a clock that advances with every insert.

VARIABLES commits, histories

\* the primary key of commits::Model
CommitKey(r) == <<r.pkg_name, r.pkg_version, r.tree, r.branch, r.commit_id>>

\* a plain INSERT in place of the upsert: the row is added beside the old one
InsertCommitRow(rows, r) == rows \cup {r}

\* INSERT ... ON CONFLICT (primary key) DO UPDATE of one row
ReplaceCommitRow(rows, r) == {x \in rows : CommitKey(x) # CommitKey(r)} \cup {r}

\* replace_many(rows): the rows of one statement, applied in order
RECURSIVE ReplaceCommitRows(_, _)
ReplaceCommitRows(rows, rs) ==
    IF rs = << >> THEN rows
    ELSE ReplaceCommitRows(ReplaceCommitRow(rows, Head(rs)), Tail(rs))

\* the CommitInfo of a scanned package, none when it did not build
InfoOfPackage(res, commit_id, time, spec_path, defines_path) ==
    IF res.some
    THEN << [commit_id |-> commit_id, commit_time |-> time,
             pkg_name |-> res.pkg.name, pkg_version |-> res.pkg.version,
             defines_path |-> defines_path, spec_path |-> spec_path] >>
    ELSE << >>

InfoAt(g, commit_id, time, sp, defines_path) ==
    IF sp.ok
    THEN InfoOfPackage(scan_package(g, commit_id, sp.path, defines_path),
                       commit_id, time, sp.path, defines_path)
    ELSE << >>

\* add_commits, generate_package_commit_info: the CommitInfo of one defines path,
\* parsed at commit_id
GenerateInfo(g, commit_id, time, defines_path) ==
    InfoAt(g, commit_id, time, defines_path_to_spec_path(defines_path), defines_path)

GenerateInfos(g, commit_id, time, d) ==
    Flatten([i \in 1..Len(d) |-> GenerateInfo(g, commit_id, time, d[i])])

GenerateFirst(g, commit_id, time, d) ==
    IF d.ok THEN GenerateInfo(g, commit_id, time, d.paths[1]) ELSE << >>

\* add_commits: the commit whose tree classifies a delta (the first parent for a
\* deletion); NoCommit when the delta is skipped
BaseCommit(g, e) ==
    CASE e.status \in {"Added", "Modified"} -> e.commit_id
      [] e.status = "Deleted" ->
            IF Len(g[e.commit_id].parents) \in {1, 2}
            THEN g[e.commit_id].parents[1] ELSE NoCommit
      [] OTHER -> NoCommit

\* add_commits, lines 127-148: the classification of a delta against the tree of base
ClassifiedInfo(g, e, base) ==
    IF base = NoCommit THEN << >>
    ELSE CASE FileName(e.path) = "defines" ->
                 GenerateInfo(g, e.commit_id, e.time, e.path)
           [] FileName(e.path) = "spec" ->
                 GenerateInfos(g, e.commit_id, e.time,
                               spec_path_to_defines_path(g, e.commit_id, e.path).paths)
           [] OTHER ->
                 GenerateFirst(g, e.commit_id, e.time,
                               FirstDefines(TreeOf(g, base), Ancestors(e.path)))

\* add_commits: the CommitInfo of one scanned delta
InfoOfDelta(g, e) == ClassifiedInfo(g, e, BaseCommit(g, e))

InfosOfDeltas(g, result) == Flatten([i \in 1..Len(result) |-> InfoOfDelta(g, result[i])])

\* add_commits: the CommitInfo of the commits, in scan order
CommitInfos(g, oids) == InfosOfDeltas(g, scan_commits(g, oids))

CommitRow(info, tree, branch) ==
    [pkg_name |-> info.pkg_name, pkg_version |-> info.pkg_version,
     spec_path |-> info.spec_path, defines_path |-> info.defines_path,
     tree |-> tree, branch |-> branch,
     commit_id |-> info.commit_id, commit_time |-> info.commit_time]

CommitRows(infos, tree, branch) ==
    [i \in 1..Len(infos) |-> CommitRow(infos[i], tree, branch)]

\* add_commits: the commits table once the transaction has committed
add_commits(rows, g, tree, branch, oids) ==
    ReplaceCommitRows(rows, CommitRows(CommitInfos(g, oids), tree, branch))

\* the rows of (tree, branch) in histories
OfBranch(h, tree, branch) ==
    SelectSeq(h, LAMBDA r : r.tree = tree /\ r.branch = branch)

\* rows ordered by ascending timestamp
RECURSIVE ByTimestampAsc(_)
ByTimestampAsc(rs) ==
    IF rs = {} THEN << >>
    ELSE LET m == CHOOSE x \in rs : \A y \in rs : x.timestamp <= y.timestamp
         IN <<m>> \o ByTimestampAsc(rs \ {m})

\* get_branch_histories: ORDER BY timestamp ASC
get_branch_histories(h, tree, branch) == ByTimestampAsc(Range(OfBranch(h, tree, branch)))

\* get_latest_history: the commit of the row with the greatest timestamp, if any
get_latest_history(h, tree, branch) ==
    LET rs == Range(OfBranch(h, tree, branch))
    IN IF rs = {} THEN NoCommit
       ELSE (CHOOSE x \in rs : \A y \in rs : y.timestamp <= x.timestamp).commit_id

\* insert_history: append a row stamped with the current time
insert_history(h, tree, branch, commit) ==
    Append(h, [tree |-> tree, branch |-> branch, commit_id |-> commit,
               timestamp |-> Len(h) + 1])

\* Repository::get_branch_oid
HasBranch(b) == b \in DOMAIN branches

\* update_branch: the commits it hands to add_commits
UpdateBranchRange(g, h, tree, branch, to) ==
    get_commits_by_range(g, get_latest_history(h, tree, branch), to)

\* walk_diff_tree(from, to)
walk_diff_tree(g, from, to) ==
    DiffTrees(IF from = NoCommit THEN EmptyTree ELSE TreeOf(g, from), TreeOf(g, to))

\* get_updated_packages: the (from, to) window of the diff
UpdatedWindow(hs) ==
    IF Len(hs) = 1 THEN [from |-> NoCommit, to |-> hs[1].commit_id]
    ELSE [from |-> hs[2].commit_id, to |-> hs[1].commit_id]

\* get_updated_packages, lines 336-342: a spec with the defines below it
SpecEntries(d, r) ==
    IF ~r.ok THEN {}
    ELSE {[spec |-> d.path, defines |-> r.paths[i], status |-> d.status] :
            i \in 1..Len(r.paths)}

SpecEntriesAt(g, commit, d) ==
    IF commit = NoCommit THEN {}
    ELSE SpecEntries(d, spec_path_to_defines_path(g, commit, d.path))

\* get_updated_packages, lines 344-348: a defines with its spec
DefinesEntry(d, sp) ==
    IF sp.ok THEN {[spec |-> sp.path, defines |-> d.path, status |-> d.status]} ELSE {}

\* get_updated_packages: the (spec, defines, status) tuples of one delta
DiffEntry(g, from, to, d) ==
    CASE d.path[Len(d.path)] = "spec" ->
            SpecEntriesAt(g, IF d.status = "Deleted" THEN from ELSE to, d)
      [] d.path[Len(d.path)] = "defines" ->
            DefinesEntry(d, defines_path_to_spec_path(d.path))
      [] OTHER -> {}

DiffEntries(g, from, to, ds) == UNION {DiffEntry(g, from, to, ds[i]) : i \in 1..Len(ds)}

\* get_updated_packages: the HashSet diff
UpdatedDiff(g, from, to) == DiffEntries(g, from, to, walk_diff_tree(g, from, to))

\* the Meta of a scanned package, keyed by the paths it was read from
MetaOf(x, res) ==
    IF res.some
    THEN {[spec |-> x.spec, defines |-> x.defines, pkg |-> res.pkg,
           context |-> res.context, errors |-> res.errors]}
    ELSE {}

\* scan_packages: the metas of the pairs whose package builds
scan_packages(g, commit, pairs) ==
    UNION {MetaOf(x, scan_package(g, commit, x.spec, x.defines)) : x \in pairs}

PathPairs(entries) == {[spec |-> x.spec, defines |-> x.defines] : x \in entries}

\* get_updated_packages, lines 356-374: the split of the diff and the two scans
SplitDiff(g, w, diff) ==
    [deleted |-> IF w.from # NoCommit
                 THEN scan_packages(g, w.from,
                                    PathPairs({y \in diff : y.status = "Deleted"}))
                 ELSE {},
     updated |-> scan_packages(g, w.to,
                    PathPairs({y \in diff : y.status \in {"Modified", "Added"}}))]

UpdatedIn(g, w) == SplitDiff(g, w, UpdatedDiff(g, w.from, w.to))

\* get_updated_packages: (deleted_packages, updated_packages)
get_updated_packages(g, h, tree, branch) ==
    UpdatedIn(g, UpdatedWindow(get_branch_histories(h, tree, branch)))

CommitsNewestFirst(mine, ids) ==
    [i \in 1..Len(ids) |->
       [commit_id |-> ids[i],
        pkg_version |-> (CHOOSE x \in mine : x.commit_id = ids[i]).pkg_version]]

CommitsOf(mine) == CommitsNewestFirst(mine, NewestFirst({r.commit_id : r \in mine}))

\* get_commits_by_packages: the commits of a package, commit_time descending, one
\* entry per commit id
get_commits_by_packages(rows, tree, branch, pkg_name) ==
    CommitsOf({r \in rows : r.pkg_name = pkg_name /\ r.tree = tree /\ r.branch = branch})

ChangesOf(cs, tree, branch, pkg_name) ==
    [i \in 1..Len(cs) |->
       [pkg_name |-> pkg_name, version |-> cs[i].pkg_version, branch |-> branch,
        githash |-> cs[i].commit_id, timestamp |-> CommitTime(cs[i].commit_id),
        tree |-> tree]]

\* get_package_changes: one Change per commit row of the package
get_package_changes(rows, tree, branch, pkg_name) ==
    ChangesOf(get_commits_by_packages(rows, tree, branch, pkg_name), tree, branch, pkg_name)

(* -------------------------- package database --------------------------- *)
\* abbs: the committed tables of the package database.  A store (AbbsDb) is bound
\* to self = [tree, branch].

VARIABLES abbs

EmptyAbbs ==
    [trees |-> {}, packages |-> {}, fts |-> {}, changes |-> {}, versions |-> {},
     spec |-> {}, deps |-> {}, errors |-> EmptyBag, testing |-> {}, duplicate |-> {}]

\* the eight dependency fields of Package and their relationship tags
DepKinds ==
    <<"PKGDEP", "BUILDDEP", "PKGSUG", "PKGPROV", "PKGRECOM", "PKGREP", "PKGBREAK",
      "PKGCONFIG">>

\* Package.<field> for a relationship tag: only PKGDEP is read from the context
PkgDeps(pkg, kind) == IF kind = "PKGDEP" THEN pkg.dependencies ELSE {}

\* i32::to_string on the small non-negative numbers of the model
IntToStr(n) ==
    CASE n = 0 -> "0" [] n = 1 -> "1" [] n = 2 -> "2" [] n = 3 -> "3" [] OTHER -> "?"

\* add_package, lines 255-256, without the filter: 0 is stored as "0"
NonZeroStrKeepZero(n) == IntToStr(n)

\* Some(n).filter(|x| *x != 0).map(|x| x.to_string()); NULL is "NULL"
NonZeroStr(n) == IF n # 0 THEN IntToStr(n) ELSE "NULL"

\* AbbsDb::open: upsert of the Tree row of the configured repository
OpenStore(db, self) ==
    [db EXCEPT !.trees =
        {t \in @ : t.name # self.tree} \cup {[name |-> self.tree, mainbranch |-> self.branch]}]

\* update_duplicate: one row for the new location, one for the existing one
update_duplicate(dup, pkg, existing, tree) ==
    dup \cup {[package |-> pkg.name, tree |-> tree, category |-> pkg.category,
               section |-> pkg.section, directory |-> pkg.directory],
              [package |-> pkg.name, tree |-> existing.tree,
               category |-> existing.category, section |-> existing.section,
               directory |-> existing.directory]}

\* add_package, lines 170-198: the PackageDuplicate rows
AddDuplicates(db, self, pkg) ==
    LET found == {r \in db.packages : r.name = pkg.name}
    IN IF found = {} THEN db
       ELSE LET existing == CHOOSE r \in found : TRUE
                moved == <<pkg.category, pkg.section, pkg.directory>>
                         # <<existing.category, existing.section, existing.directory>>
            IN IF existing.tree # self.tree \/ moved
               THEN [db EXCEPT !.duplicate = update_duplicate(@, pkg, existing, self.tree)]
               ELSE db

\* add_package without lines 200-211: no Package row is written
AddPackageRowSkipped(db, self, pkg) == db

\* add_package, lines 200-211: upsert of the Package row
AddPackageRow(db, self, pkg) ==
    [db EXCEPT !.packages =
        {r \in @ : r.name # pkg.name} \cup
        {[name |-> pkg.name, tree |-> self.tree, category |-> pkg.category,
          section |-> pkg.section, pkg_section |-> pkg.pkg_section,
          directory |-> pkg.directory, description |-> pkg.description,
          spec_path |-> pkg.spec_path]}]

\* add_package, lines 213-230: the full-text row
AddFts(db, pkg) ==
    LET found == {r \in db.fts : r.name = pkg.name}
        model == [name |-> pkg.name, description |-> pkg.description]
    IN IF found = {} THEN [db EXCEPT !.fts = @ \cup {model}]
       ELSE LET res == CHOOSE r \in found : TRUE
            IN IF res.description # pkg.description
               THEN [db EXCEPT !.fts = {r \in @ : r.name # res.name} \cup {model}]
               ELSE db

\* add_package, lines 232-248: the PackageChanges rows
AddChanges(db, changes) ==
    [db EXCEPT !.changes = @ \cup
        {[package |-> changes[i].pkg_name, githash |-> changes[i].githash,
          version |-> changes[i].version, branch |-> changes[i].branch,
          timestamp |-> changes[i].timestamp, tree |-> changes[i].tree] :
            i \in 1..Len(changes)}]

\* add_package, lines 250-266: upsert of the PackageVersion row from the newest change
AddVersion(db, self, pkg, changes) ==
    [db EXCEPT !.versions =
        {r \in @ : ~(r.package = pkg.name /\ r.branch = self.branch /\ r.architecture = "")}
        \cup {[package |-> pkg.name, branch |-> self.branch, architecture |-> "",
               version |-> pkg.version, release |-> NonZeroStr(pkg.release),
               epoch |-> NonZeroStr(pkg.epoch), commit_time |-> changes[1].timestamp,
               githash |-> changes[1].githash]}]

\* the PackageSpec rows of a context
SpecRows(name, context) ==
    {[package |-> name, key |-> k, value |-> context[k]] : k \in DOMAIN context}

\* add_package, lines 268-281, without the delete: the rows are upserted only
AddSpecKeepingOld(db, pkg, context) ==
    [db EXCEPT !.spec =
        {r \in @ : ~(r.package = pkg.name /\ r.key \in DOMAIN context)}
        \cup SpecRows(pkg.name, context)]

\* add_package, lines 268-281: delete the PackageSpec rows, insert the context
AddSpec(db, pkg, context) ==
    [db EXCEPT !.spec = {r \in @ : r.package # pkg.name} \cup SpecRows(pkg.name, context)]

\* add_dependencies: the rows of one relationship, "default" stored as ""
DepRows(name, kind, deps) ==
    {[package |-> name, dependency |-> d[2],
      architecture |-> IF d[1] = "default" THEN "" ELSE d[1],
      relationship |-> kind] : d \in deps}

\* add_package, lines 283-297: delete the PackageDependency rows, insert the eight kinds
AddDeps(db, pkg) ==
    [db EXCEPT !.deps =
        {r \in @ : r.package # pkg.name} \cup
        UNION {DepRows(pkg.name, DepKinds[i], PkgDeps(pkg, DepKinds[i])) :
                 i \in 1..Len(DepKinds)}]

\* the package_errors row of a PackageError
ErrorRow(e, self) ==
    [package |-> e.package, err_type |-> e.err_type, message |-> e.message,
     path |-> e.path, tree |-> self.tree, branch |-> self.branch,
     line |-> e.line, col |-> e.col]

\* rows inserted with a fresh id each
RECURSIVE InsertErrors(_, _, _)
InsertErrors(bag, errors, self) ==
    IF errors = << >> THEN bag
    ELSE InsertErrors(bag (+) SetToBag({ErrorRow(Head(errors), self)}), Tail(errors), self)

\* add_package, lines 299-313: the PackageError rows, inserted when there are any
AddErrors(db, self, errors) ==
    IF errors # << >> THEN [db EXCEPT !.errors = InsertErrors(@, errors, self)] ELSE db

\* the statements of add_package inside its transaction
AddPackageSteps == 8

\* statement k of add_package on the transaction's view of the database
AddPackageStmt(db, self, meta, changes, k) ==
    CASE k = 1 -> AddDuplicates(db, self, meta.pkg)
      [] k = 2 -> AddPackageRow(db, self, meta.pkg)
      [] k = 3 -> AddFts(db, meta.pkg)
      [] k = 4 -> AddChanges(db, changes)
      [] k = 5 -> AddVersion(db, self, meta.pkg, changes)
      [] k = 6 -> AddSpec(db, meta.pkg, meta.context)
      [] k = 7 -> AddDeps(db, meta.pkg)
      [] k = 8 -> AddErrors(db, self, meta.errors)
      [] OTHER -> db

RECURSIVE AddPackageFrom(_, _, _, _, _)
AddPackageFrom(db, self, meta, changes, k) ==
    IF k > AddPackageSteps THEN db
    ELSE AddPackageFrom(AddPackageStmt(db, self, meta, changes, k), self, meta, changes, k + 1)

\* add_package with its statements on the connection and the check of the changes
\* where they are first used, after the full-text row
add_package_late_check(db, self, meta, changes) ==
    IF changes = << >>
    THEN [ok |-> FALSE,
          error |-> "cannot find changes of package, please update commit database",
          db |-> AddFts(AddPackageRow(AddDuplicates(db, self, meta.pkg), self, meta.pkg),
                        meta.pkg)]
    ELSE [ok |-> TRUE, db |-> AddPackageFrom(db, self, meta, changes, 1)]

\* add_package: Ok and the database once the transaction commits; with no change
\* the call fails before any statement and the transaction is rolled back
add_package_result(db, self, meta, changes) ==
    IF changes = << >>
    THEN [ok |-> FALSE,
          error |-> "cannot find changes of package, please update commit database",
          db |-> db]
    ELSE [ok |-> TRUE, db |-> AddPackageFrom(db, self, meta, changes, 1)]

\* add_package: the database afterwards
add_package(db, self, meta, changes) == add_package_result(db, self, meta, changes).db

\* the statements of delete_package, each its own autocommit statement
DeletePackageSteps == 7

\* statement k of delete_package
DeletePackageStmt(db, self, name, k) ==
    CASE k = 1 -> [db EXCEPT !.versions =
                     {r \in @ : ~(r.package = name /\ r.branch = self.branch)}]
      [] k = 2 -> [db EXCEPT !.spec = {r \in @ : r.package # name}]
      [] k = 3 -> [db EXCEPT !.deps = {r \in @ : r.package # name}]
      [] k = 4 -> [db EXCEPT !.packages =
                     {r \in @ : ~(r.name = name /\ r.tree = self.tree)}]
      [] k = 5 -> [db EXCEPT !.fts = {r \in @ : r.name # name}]
      [] k = 6 -> [db EXCEPT !.errors =
                     LET keep == {e \in DOMAIN @ : ~(e.package = name /\ e.tree = self.tree
                                                     /\ e.branch = self.branch)}
                     IN [e \in keep |-> @[e]]]
      [] k = 7 -> [db EXCEPT !.testing =
                     {r \in @ : ~(r.package = name /\ r.tree = self.tree
                                  /\ r.branch = self.branch)}]
      [] OTHER -> db

RECURSIVE DeletePackageFrom(_, _, _, _)
DeletePackageFrom(db, self, name, k) ==
    IF k > DeletePackageSteps THEN db
    ELSE DeletePackageFrom(DeletePackageStmt(db, self, name, k), self, name, k + 1)

\* delete_package with line 350 left out: the Package row of the name is
\* deleted whatever tree owns it
delete_package_any_tree(db, self, name) ==
    [DeletePackageFrom(db, self, name, 1) EXCEPT !.packages = {r \in @ : r.name # name}]

\* delete_package
delete_package(db, self, name) == DeletePackageFrom(db, self, name, 1)

(* ------------------------------ v_packages ------------------------------ *)
\* The view of AbbsDb::open.  A text is kept as the sequence of its non-empty
\* pieces, so that || is \o; a NULL text is NullText.

NullText == <<"NULL">>

Text(s) == IF s = "" THEN << >> ELSE <<s>>

\* ifnull(x, y)
IfNull(x, y) == IF x = "NULL" THEN y ELSE x

\* x || y: NULL when an operand is NULL
Concat(a, b) == IF a = NullText \/ b = NullText THEN NullText ELSE a \o b

\* the full_version column
full_version(pv) ==
    Concat(Concat(IF IfNull(pv.epoch, "") = "" THEN Text("")
                  ELSE Concat(Text(pv.epoch), Text(":")),
                  Text(pv.version)),
           IF IfNull(pv.release, "") \in {"", "0"} THEN Text("")
           ELSE Concat(Text("-"), Text(pv.release)))

\* the columns of package_versions when the LEFT JOIN finds no row
NullVersion ==
    [package |-> "NULL", branch |-> "NULL", version |-> "NULL", release |-> "NULL",
     epoch |-> "NULL", commit_time |-> "NULL"]

\* LEFT JOIN package_versions pv ON pv.package = p.name AND pv.branch = t.mainbranch
JoinedVersions(db, p, t) ==
    IF \E pv \in db.versions : pv.package = p.name /\ pv.branch = t.mainbranch
    THEN {pv \in db.versions : pv.package = p.name /\ pv.branch = t.mainbranch}
    ELSE {NullVersion}

ViewRow(p, t, pv) ==
    [name |-> p.name, tree |-> p.tree, branch |-> pv.branch, category |-> p.category,
     section |-> p.section, pkg_section |-> p.pkg_section, directory |-> p.directory,
     description |-> p.description, version |-> pv.version, spec_path |-> p.spec_path,
     full_version |-> full_version(pv), commit_time |-> pv.commit_time]

\* SELECT ... FROM packages p INNER JOIN trees t ON t.name = p.tree LEFT JOIN ...
v_packages(db) ==
    UNION {{ViewRow(x[1], x[2], pv) : pv \in JoinedVersions(db, x[1], x[2])} :
             x \in {y \in db.packages \X db.trees : y[2].name = y[1].tree}}

(* --------------------------- testing branches -------------------------- *)

\* scan_branch(main, Some(1000)): the commits of the mainbranch that are ordered
MainTake == 1000
\* scan_branch(_, None): take.unwrap_or(100000000)
AllTake == 100000000
\* the order of a package with no PackageTesting row on the branch
NoOrder == 100000

Min(a, b) == IF a <= b THEN a ELSE b

\* the branch names update_package_testing leaves out: "stable", "origin/HEAD",
\* "origin/stable" and the names starting with "retro" or "origin/retro"
SkippedBranch(name) ==
    name \in {"stable", "origin/HEAD", "origin/stable", "retro-1", "origin/retro-1"}

\* update_package_testing: the testing branches
TestingBranches(br, exclude) ==
    {b \in DOMAIN br : ~(SkippedBranch(b) \/ b \in exclude)}

\* scan_branch: commit -> position in the walk from the tip, newest = 0
scan_branch(g, tip, take) ==
    LET s == NewestFirst(Reach(g, tip))
        n == Min(Len(s), take)
    IN [c \in {s[i] : i \in 1..n} |-> (CHOOSE i \in 1..n : s[i] = c) - 1]

\* update_package_testing without line 237: stable's commits are not subtracted
AheadCommitsAll(g, br, h, tree, testing) ==
    NewestFirst(
        Range(get_commits_by_range(g, get_latest_history(h, tree, testing), br[testing])))

\* update_package_testing, one branch: the commits ahead of stable since the
\* latest history tip
AheadCommits(g, br, h, tree, testing) ==
    NewestFirst(
        Range(get_commits_by_range(g, get_latest_history(h, tree, testing), br[testing]))
        \ Range(get_commits_by_range(g, NoCommit, br["stable"])))

\* update_package_testing, lines 238-244: the writes for one branch; st = [commits,
\* histories, result], result: branch -> its non-empty CommitInfo list
PackageTestingWrite(st, g, br, tree, testing, ahead, info) ==
    [commits |-> add_commits(st.commits, g, tree, testing, ahead),
     histories |-> insert_history(st.histories, tree, testing, br[testing]),
     result |-> IF info # << >> THEN (testing :> info) @@ st.result ELSE st.result]

PackageTestingAhead(st, g, br, tree, testing, ahead) ==
    PackageTestingWrite(st, g, br, tree, testing, ahead, CommitInfos(g, ahead))

\* update_package_testing, lines 227-245: one testing branch
PackageTestingBranch(st, g, br, tree, testing) ==
    PackageTestingAhead(st, g, br, tree, testing,
                        AheadCommits(g, br, st.histories, tree, testing))

\* update_package_testing: the loop over the testing branches
RECURSIVE PackageTestingLoop(_, _, _, _, _)
PackageTestingLoop(st, g, br, tree, todo) ==
    IF todo = {} THEN st
    ELSE PackageTestingLoop(
            PackageTestingBranch(st, g, br, tree, CHOOSE b \in todo : TRUE),
            g, br, tree, todo \ {CHOOSE b \in todo : TRUE})

\* update_package_testing
update_package_testing(rows, h, g, br, tree, exclude) ==
    PackageTestingLoop([commits |-> rows, histories |-> h, result |-> << >>],
                       g, br, tree, TestingBranches(br, exclude))

\* update_testing_branch: the divergence ordinal of a branch, -1 when the branch
\* shares no commit with the ordered part of the mainbranch
LastOrder(main, testing) ==
    LET common == (DOMAIN testing) \cap (DOMAIN main)
    IN IF common = {} THEN -1
       ELSE testing[CHOOSE c \in common : \A d \in common : main[d] <= main[c]]

\* the same with unwrap_or(&0): a package without a row, or with a row of a commit
\* that is not on the branch, counts as being at the tip
DbOrderOrTip(rows, testing, pkg_name, tree, branch) ==
    IF \E r \in rows : r.package = pkg_name /\ r.tree = tree /\ r.branch = branch
                        /\ r.commit \in DOMAIN testing
    THEN testing[(CHOOSE r \in rows : r.package = pkg_name /\ r.tree = tree
                                       /\ r.branch = branch).commit]
    ELSE 0

\* update_testing_branch: the order of the commit a PackageTesting row holds
DbOrder(rows, testing, pkg_name, tree, branch) ==
    LET found == {r \in rows : r.package = pkg_name /\ r.tree = tree /\ r.branch = branch}
    IN IF found = {} THEN NoOrder
       ELSE LET current == CHOOSE r \in found : TRUE
            IN IF current.commit \in DOMAIN testing THEN testing[current.commit]
               ELSE NoOrder

\* the rule without the comparison with the stored commit: the row is upserted
\* whenever new_order <= last
TestingRuleNoCompare(rows, new_order, db_order, last, info, tree, branch) ==
    IF new_order <= last
    THEN {r \in rows : ~(r.package = info.pkg_name /\ r.tree = tree /\ r.branch = branch)}
         \cup {[package |-> info.pkg_name, tree |-> tree, branch |-> branch,
                version |-> info.pkg_version, spec_path |-> info.spec_path,
                defines_path |-> info.defines_path, commit |-> info.commit_id]}
    ELSE IF new_order > last /\ db_order > last
         THEN {r \in rows : ~(r.package = info.pkg_name /\ r.tree = tree
                              /\ r.branch = branch)}
         ELSE rows

\* update_testing_branch, lines 415-435: the rule for one package info
TestingRule(rows, new_order, db_order, last, info, tree, branch) ==
    IF new_order < db_order /\ new_order <= last
    THEN {r \in rows : ~(r.package = info.pkg_name /\ r.tree = tree /\ r.branch = branch)}
         \cup {[package |-> info.pkg_name, tree |-> tree, branch |-> branch,
                version |-> info.pkg_version, spec_path |-> info.spec_path,
                defines_path |-> info.defines_path, commit |-> info.commit_id]}
    ELSE IF new_order > last /\ db_order > last
         THEN {r \in rows : ~(r.package = info.pkg_name /\ r.tree = tree
                              /\ r.branch = branch)}
         ELSE rows

\* update_testing_branch, lines 403-436: one package info of a branch
TestingInfoStep(rows, testing, last, info, tree, branch) ==
    IF info.commit_id \notin DOMAIN testing THEN rows
    ELSE TestingRule(rows, testing[info.commit_id],
                     DbOrder(rows, testing, info.pkg_name, tree, branch),
                     last, info, tree, branch)

RECURSIVE TestingInfoLoop(_, _, _, _, _, _)
TestingInfoLoop(rows, testing, last, infos, tree, branch) ==
    IF infos = << >> THEN rows
    ELSE TestingInfoLoop(TestingInfoStep(rows, testing, last, Head(infos), tree, branch),
                         testing, last, Tail(infos), tree, branch)

\* update_testing_branch, lines 396-436: a branch with its divergence ordinal known
TestingBranchWith(st, testing, last, infos, tree, branch) ==
    IF last < 0
    THEN [rows |-> st.rows, outdated |-> st.outdated \cup {branch}]
    ELSE [rows |-> TestingInfoLoop(st.rows, testing, last, infos, tree, branch),
          outdated |-> st.outdated]

TestingBranchScanned(st, main, testing, infos, tree, branch) ==
    TestingBranchWith(st, testing, LastOrder(main, testing), infos, tree, branch)

\* update_testing_branch, lines 386-437: one branch with new infos; st = [rows,
\* outdated]
TestingBranchStep(st, g, br, tree, result, branch) ==
    TestingBranchScanned(st, scan_branch(g, br[MainBranch], MainTake),
                         scan_branch(g, br[branch], AllTake), result[branch], tree, branch)

\* update_testing_branch: the loop over the branches with new infos
RECURSIVE TestingBranchLoop(_, _, _, _, _, _)
TestingBranchLoop(st, g, br, tree, result, todo) ==
    IF todo = {} THEN st
    ELSE TestingBranchLoop(
            TestingBranchStep(st, g, br, tree, result, CHOOSE b \in todo : TRUE),
            g, br, tree, result, todo \ {CHOOSE b \in todo : TRUE})

\* update_testing_branch without lines 439-454: no row is deleted at the end
TestingCleanupSkipped(rows, tree, current, outdated) == rows

\* update_testing_branch, lines 439-454: rows of branches that are gone or outdated
TestingCleanup(rows, tree, current, outdated) ==
    {r \in rows : ~(r.tree = tree /\ (r.branch \notin current \/ r.branch \in outdated))}

TestingFinish(upt, st, br, tree) ==
    [commits |-> upt.commits, histories |-> upt.histories,
     testing |-> TestingCleanup(st.rows, tree, DOMAIN br, st.outdated)]

TestingAfter(upt, ptrows, g, br, tree) ==
    TestingFinish(upt,
                  TestingBranchLoop([rows |-> ptrows, outdated |-> {}], g, br, tree,
                                    upt.result, DOMAIN upt.result),
                  br, tree)

\* update_testing_branch: [commits, histories, testing] afterwards
update_testing_branch(rows, h, ptrows, g, br, tree, exclude) ==
    TestingAfter(update_package_testing(rows, h, g, br, tree, exclude), ptrows, g, br, tree)

(* ----------------------------- orchestrator ---------------------------- *)
\* One process runs do_scan_and_update; it may be killed between any two database
\* statements.  The repository changes only between runs.
\*   pc       where the run stands
\*   deleted  names still to be handed to delete_package
\*   updated  metas still to be handed to add_package
\*   delcur   the delete_package call in progress: [name, step]
\*   window   the (from, to) of the last get_updated_packages
\*   nruns    runs started so far

VARIABLES pc, deleted, updated, delcur, window, nruns

\* history of the execution, read by the properties only:
\*   snap     the commit and package tables when the current run started
\*   steady   the last run completed and the repository has not changed since
\*   rerun    the current run started from a steady state
\*   lagging  a run was killed between add_commits and insert_history and the
\*            repository has not changed since
\*   pending  the deleted names and updated packages of the first run killed after
\*            update_branch since the repository last changed
VARIABLES snap, steady, rerun, lagging, pending

\* the store-level variables, used by SpecDb and SpecStores (below); occupied is
\* the set of locations at which add_package calls on the package database
\* committed a package
VARIABLES txn, lastOp, observed, ncalls, occupied

\* the pass of update_testing_branch, used by SpecTesting (below)
\*   tpass  where the pass stands: the infos update_package_testing returned, the
\*          branches still to visit, the branch in hand with its scan, its
\*          divergence ordinal and its infos, and the outdated branches
\*   tstep  the last turn of the loop over the infos: the info and the
\*          PackageTesting rows before and after
\*   walked the last call of get_commits_by_range: from, to and the result
VARIABLES tpass, tstep, walked

gitVars == <<graph, branches>>
dbVars == <<commits, histories, abbs>>
runVars == <<pc, deleted, updated, delcur, window, nruns>>
ghostVars == <<snap, steady, rerun, lagging, pending>>
storeVars == <<txn, lastOp, observed, ncalls, occupied>>
testVars == <<tpass, tstep, walked>>
vars == <<gitVars, dbVars, runVars, ghostVars, storeVars, testVars>>

Self == [tree |-> TreeName, branch |-> MainBranch]

NoWindow == [from |-> NoCommit, to |-> NoCommit]
NoDelete == [name |-> "", step |-> 0]
NoPending == [on |-> FALSE, deleted |-> {}, updated |-> {}]
NoTxn == [step |-> 0]
NoOp == [op |-> "none"]
NoRead == [on |-> FALSE]
NoPass == [on |-> FALSE]
NoStep == [on |-> FALSE]
NoWalk == [on |-> FALSE]

Tip == branches[MainBranch]

Init ==
    /\ graph = << >>
    /\ branches = << >>
    /\ commits = {}
    /\ histories = << >>
    /\ abbs = EmptyAbbs
    /\ pc = "idle"
    /\ deleted = {}
    /\ updated = {}
    /\ delcur = NoDelete
    /\ window = NoWindow
    /\ nruns = 0
    /\ snap = [commits |-> {}, abbs |-> EmptyAbbs]
    /\ steady = FALSE
    /\ rerun = FALSE
    /\ lagging = FALSE
    /\ pending = NoPending
    /\ txn = NoTxn
    /\ lastOp = NoOp
    /\ observed = NoRead
    /\ ncalls = 0
    /\ occupied = {}
    /\ tpass = NoPass
    /\ tstep = NoStep
    /\ walked = NoWalk

\* a commit with tree t is pushed to the tracked branch
GitCommit(t) ==
    /\ pc \in {"idle", "done"}
    /\ Len(graph) < MaxCommits
    /\ graph' = Append(graph,
          [parents |-> IF MainBranch \in DOMAIN branches THEN <<Tip>> ELSE << >>,
           tree |-> t])
    /\ branches' = (MainBranch :> Len(graph) + 1) @@ branches
    /\ pc' = "idle"
    /\ steady' = FALSE
    /\ lagging' = FALSE
    /\ pending' = NoPending
    /\ UNCHANGED <<testVars, dbVars, deleted, updated, delcur, window, nruns, snap, rerun, storeVars>>

\* do_scan_and_update, lines 47-49: the repository and both databases are opened
RunStart ==
    /\ pc \in {"idle", "done"}
    /\ MainBranch \in DOMAIN branches
    /\ nruns < MaxRuns
    /\ nruns' = nruns + 1
    /\ abbs' = OpenStore(abbs, Self)
    /\ snap' = [commits |-> commits, abbs |-> OpenStore(abbs, Self)]
    /\ rerun' = steady
    /\ pc' = "open"
    /\ UNCHANGED <<testVars, gitVars, commits, histories, deleted, updated, delcur, window,
                   steady, lagging, pending, storeVars>>

\* do_scan_and_update, lines 50-52
UpdateTestingBranch ==
    /\ pc = "open"
    /\ \E r \in {update_testing_branch(commits, histories, abbs.testing, graph,
                                        branches, TreeName, {})} :
          /\ commits' = r.commits
          /\ histories' = r.histories
          /\ abbs' = [abbs EXCEPT !.testing = r.testing]
    /\ pc' = "tested"
    /\ UNCHANGED <<testVars, gitVars, deleted, updated, delcur, window, nruns, ghostVars, storeVars>>

\* update_branch with the History row written first, the commits second
UpdateBranchHistoryFirst(st, g, tree, branch, to, k) ==
    IF k = 1
    THEN [st EXCEPT !.histories = insert_history(@, tree, branch, to)]
    ELSE [st EXCEPT !.commits =
            add_commits(@, g, tree, branch,
               UpdateBranchRange(g, SubSeq(st.histories, 1, Len(st.histories) - 1),
                                 tree, branch, to))]

\* update_branch: its two writes, st = [commits, histories]: first the transaction
\* of add_commits over (latest history, to], then the History row
UpdateBranchStep(st, g, tree, branch, to, k) ==
    IF k = 1
    THEN [st EXCEPT !.commits =
            add_commits(@, g, tree, branch,
                        UpdateBranchRange(g, st.histories, tree, branch, to))]
    ELSE [st EXCEPT !.histories = insert_history(@, tree, branch, to)]

\* update_branch, lines 293-300
UpdateBranchAddCommits ==
    /\ pc = "tested"
    /\ \E st \in {UpdateBranchStep([commits |-> commits, histories |-> histories],
                                    graph, TreeName, MainBranch, Tip, 1)} :
          commits' = st.commits /\ histories' = st.histories
    /\ pc' = "committed"
    /\ UNCHANGED <<testVars, gitVars, abbs, deleted, updated, delcur, window, nruns, ghostVars,
                   storeVars>>

\* update_branch, line 302
UpdateBranchInsertHistory ==
    /\ pc = "committed"
    /\ \E st \in {UpdateBranchStep([commits |-> commits, histories |-> histories],
                                    graph, TreeName, MainBranch, Tip, 2)} :
          commits' = st.commits /\ histories' = st.histories
    /\ pc' = "updated"
    /\ UNCHANGED <<testVars, gitVars, abbs, deleted, updated, delcur, window, nruns, ghostVars,
                   storeVars>>

\* do_scan_and_update, lines 55-60
GetUpdatedPackages ==
    /\ pc = "updated"
    /\ \E r \in {get_updated_packages(graph, histories, TreeName, MainBranch)} :
          /\ deleted' = {m.pkg.name : m \in r.deleted}
          /\ updated' = r.updated
    /\ window' = UpdatedWindow(get_branch_histories(histories, TreeName, MainBranch))
    /\ pc' = "reconcile"
    /\ UNCHANGED <<testVars, gitVars, dbVars, delcur, nruns, ghostVars, storeVars>>

\* delete_packages: the next delete_package call begins
DeleteBegin ==
    /\ pc = "reconcile"
    /\ deleted # {}
    /\ \E n \in deleted :
          /\ delcur' = [name |-> n, step |-> 1]
          /\ deleted' = deleted \ {n}
    /\ pc' = "deleting"
    /\ UNCHANGED <<testVars, gitVars, dbVars, updated, window, nruns, ghostVars, storeVars>>

\* delete_package: its next statement
DeleteStatement ==
    /\ pc = "deleting"
    /\ abbs' = DeletePackageStmt(abbs, Self, delcur.name, delcur.step)
    /\ IF delcur.step = DeletePackageSteps
       THEN delcur' = NoDelete /\ pc' = "reconcile"
       ELSE delcur' = [delcur EXCEPT !.step = @ + 1] /\ pc' = pc
    /\ UNCHANGED <<testVars, gitVars, commits, histories, deleted, updated, window, nruns,
                   ghostVars, storeVars>>

\* the loop over the updated packages entered at once
DeletePackagesSkipped(del) == TRUE

\* do_scan_and_update, line 70: delete_packages has returned, every name of the
\* deleted set has been handed to delete_package
DeletePackagesReturned(del) == del = {}

\* do_scan_and_update, lines 72-77: one turn of the loop over the updated packages;
\* add_package fails, and with it the run, when the package has no change
AddPackage ==
    /\ pc = "reconcile"
    /\ DeletePackagesReturned(deleted)
    /\ \E m \in updated :
          \E changes \in {get_package_changes(commits, TreeName, MainBranch, m.pkg.name)} :
             /\ abbs' = add_package(abbs, Self, m, changes)
             /\ IF changes = << >>
                THEN /\ pc' = "idle"
                     /\ updated' = {}
                     /\ steady' = FALSE
                ELSE /\ pc' = pc
                     /\ updated' = updated \ {m}
                     /\ steady' = steady
    /\ UNCHANGED <<testVars, gitVars, commits, histories, deleted, delcur, window, nruns,
                   snap, rerun, lagging, pending, storeVars>>

\* do_scan_and_update returns Ok
RunDone ==
    /\ pc = "reconcile"
    /\ deleted = {}
    /\ updated = {}
    /\ pc' = "done"
    /\ steady' = TRUE
    /\ lagging' = FALSE
    /\ UNCHANGED <<testVars, gitVars, dbVars, deleted, updated, delcur, window, nruns, snap,
                   rerun, pending, storeVars>>

\* what a killed run still had to apply
PendingOf(r) ==
    [on |-> TRUE,
     deleted |-> {m.pkg.name : m \in r.deleted},
     updated |-> {<<m.pkg.name, m.pkg.version>> : m \in r.updated}]

\* the process is killed; what is committed stays
Crash ==
    /\ pc \in {"open", "tested", "committed", "updated", "reconcile", "deleting"}
    /\ pc' = "idle"
    /\ deleted' = {}
    /\ updated' = {}
    /\ delcur' = NoDelete
    /\ steady' = FALSE
    /\ lagging' = (pc = "committed")
    /\ pending' =
          IF ~pending.on /\ pc \in {"updated", "reconcile", "deleting"}
          THEN PendingOf(get_updated_packages(graph, histories, TreeName, MainBranch))
          ELSE pending
    /\ UNCHANGED <<testVars, gitVars, dbVars, window, nruns, snap, rerun, storeVars>>

Next ==
    \/ \E t \in TreeChoices : GitCommit(t)
    \/ RunStart
    \/ UpdateTestingBranch
    \/ UpdateBranchAddCommits
    \/ UpdateBranchInsertHistory
    \/ GetUpdatedPackages
    \/ DeleteBegin
    \/ DeleteStatement
    \/ AddPackage
    \/ RunDone
    \/ Crash

Spec == Init /\ [][Next]_vars

\* the trees whose only content is <category>-<section>/jade/spec and
\* <category>-<section>/jade/autobuild/defines of a package that builds
FreshTrees == {TreeOk, TreeErr, TreeMoved}

\* the same runs over a repository whose commits carry these trees only
NextFresh ==
    \/ \E t \in FreshTrees : GitCommit(t)
    \/ RunStart
    \/ UpdateTestingBranch
    \/ UpdateBranchAddCommits
    \/ UpdateBranchInsertHistory
    \/ GetUpdatedPackages
    \/ DeleteBegin
    \/ DeleteStatement
    \/ AddPackage
    \/ RunDone
    \/ Crash

SpecFresh == Init /\ [][NextFresh]_vars

(* --------------------- the commit database alone ----------------------- *)
\* The scanning half of do_scan_and_update with a testing branch besides the
\* tracked one: update_testing_branch (and in it update_package_testing), then
\* update_branch, killed at any point.

TopicBranch == "topic"

\* a commit with tree t is pushed to the testing branch, which forks from the tip
\* of the tracked branch
GitCommitTopic(t) ==
    /\ pc \in {"idle", "done"}
    /\ MainBranch \in DOMAIN branches
    /\ Len(graph) < MaxCommits
    /\ graph' = Append(graph,
          [parents |-> IF TopicBranch \in DOMAIN branches
                       THEN <<branches[TopicBranch]>> ELSE <<Tip>>,
           tree |-> t])
    /\ branches' = (TopicBranch :> Len(graph) + 1) @@ branches
    /\ pc' = "idle"
    /\ steady' = FALSE
    /\ lagging' = FALSE
    /\ pending' = NoPending
    /\ UNCHANGED <<testVars, dbVars, deleted, updated, delcur, window, nruns, snap, rerun, storeVars>>

\* the run ends once update_branch has returned
ScanDone ==
    /\ pc = "updated"
    /\ pc' = "done"
    /\ lagging' = FALSE
    /\ UNCHANGED <<testVars, gitVars, dbVars, deleted, updated, delcur, window, nruns, snap,
                   steady, rerun, pending, storeVars>>

\* the trees a commit of the testing branch may carry
TopicTreeChoices == {TreeNewVer, TreeTwoDefines}

\* the trees a commit of the tracked branch may carry
ScanTreeChoices == {TreeOk, TreeNewVer, TreeTwoDefines, TreeNoDefines}

\* do_scan_and_update, lines 47-49, the commit database only
ScanStart ==
    /\ pc \in {"idle", "done"}
    /\ MainBranch \in DOMAIN branches
    /\ nruns < MaxRuns
    /\ nruns' = nruns + 1
    /\ pc' = "open"
    /\ UNCHANGED <<testVars, gitVars, dbVars, deleted, updated, delcur, window, ghostVars, storeVars>>

\* the process is killed while it scans
ScanCrash ==
    /\ pc \in {"open", "tested", "committed", "updated"}
    /\ pc' = "idle"
    /\ lagging' = (pc = "committed")
    /\ UNCHANGED <<testVars, gitVars, dbVars, deleted, updated, delcur, window, nruns, snap,
                   steady, rerun, pending, storeVars>>

NextCommits ==
    \/ \E t \in ScanTreeChoices : GitCommit(t)
    \/ \E t \in TopicTreeChoices : GitCommitTopic(t)
    \/ ScanStart
    \/ UpdateTestingBranch
    \/ UpdateBranchAddCommits
    \/ UpdateBranchInsertHistory
    \/ ScanDone
    \/ ScanCrash

SpecCommits == Init /\ [][NextCommits]_vars

\* the same with the tracked branch alone
NextBranch ==
    \/ \E t \in ScanTreeChoices : GitCommit(t)
    \/ ScanStart
    \/ UpdateTestingBranch
    \/ UpdateBranchAddCommits
    \/ UpdateBranchInsertHistory
    \/ ScanDone
    \/ ScanCrash

SpecBranch == Init /\ [][NextBranch]_vars

(* --------------------- the package database alone ---------------------- *)
\* One writer calls add_package and delete_package on a store; a reader on another
\* connection reads at any point.
\*   txn       the open transaction of add_package: [step, db, before, meta, changes],
\*             db the transaction's own view, step the next statement
\*   lastOp    the last call that committed
\*   observed  what the reader saw last, and the call it read beside
\*   ncalls    add_package calls made so far

\* a repository of one commit with tree t
OneCommit(t) == << [parents |-> << >>, tree |-> t] >>

\* the metas handed to add_package: jade as scanned from a tree
StoreMetas ==
    UNION {scan_packages(OneCommit(t), 1, {[spec |-> SpecDoc, defines |-> DefDoc]}) :
             t \in {TreeOk, TreeNewVer, TreeErr}}

\* the changes handed to add_package with a meta: none, or the one of commit 1
StoreChanges(m) ==
    {<< >>,
     ChangesOf(<<[commit_id |-> 1, pkg_version |-> m.pkg.version]>>,
               TreeName, MainBranch, m.pkg.name)}

\* what a statement of another connection reads while a transaction is open, with
\* the transaction's writes visible to it
StmtVisibleUncommitted(committed, working) == working

\* what a statement of another connection reads while a transaction is open: the
\* statements of add_package run on the transaction, not on the connection
StmtVisible(committed, working) == committed

\* the place of a package in a tree, as a PackageDuplicate row names it
Location(self, pkg) ==
    [package |-> pkg.name, tree |-> self.tree, category |-> pkg.category,
     section |-> pkg.section, directory |-> pkg.directory]

\* add_package, line 164: the transaction begins
AddPackageBegin(m) ==
    /\ txn.step = 0
    /\ ncalls < MaxCalls
    /\ ncalls' = ncalls + 1
    /\ \E ch \in StoreChanges(m) :
          txn' = [step |-> 1, db |-> abbs, before |-> abbs, meta |-> m, changes |-> ch]
    /\ UNCHANGED <<testVars, gitVars, dbVars, runVars, ghostVars, lastOp, observed, occupied>>

\* add_package: the next statement, on the transaction
AddPackageStatement ==
    /\ txn.step \in 1..AddPackageSteps
    /\ txn.changes # << >>
    /\ txn' = [txn EXCEPT !.db = AddPackageStmt(@, Self, txn.meta, txn.changes, txn.step),
                          !.step = @ + 1]
    /\ UNCHANGED <<testVars, gitVars, dbVars, runVars, ghostVars, lastOp, observed, ncalls, occupied>>

\* add_package, line 315: the transaction commits
AddPackageCommit ==
    /\ txn.step = AddPackageSteps + 1
    /\ abbs' = txn.db
    /\ lastOp' = [op |-> "add", before |-> txn.before, meta |-> txn.meta,
                  changes |-> txn.changes]
    /\ txn' = NoTxn
    /\ occupied' = occupied \cup {Location(Self, txn.meta.pkg)}
    /\ UNCHANGED <<testVars, gitVars, commits, histories, runVars, ghostVars, observed, ncalls>>

\* add_package returns an error (no change, lines 167-169) or the process is
\* killed: the transaction is dropped and rolls back
AddPackageRollback ==
    /\ txn.step > 0
    /\ txn' = NoTxn
    /\ UNCHANGED <<testVars, gitVars, dbVars, runVars, ghostVars, lastOp, observed, ncalls, occupied>>

\* delete_package of a name, between two add_package calls
DeletePackage(n) ==
    /\ txn.step = 0
    /\ \E r \in abbs.packages : r.name = n
    /\ abbs' = delete_package(abbs, Self, n)
    /\ lastOp' = [op |-> "delete", name |-> n]
    /\ UNCHANGED <<testVars, gitVars, commits, histories, runVars, ghostVars, txn, observed, ncalls, occupied>>

\* a reader reads the tables while add_package is in its transaction
ReadDuring ==
    /\ txn.step > 0
    /\ observed' = [on |-> TRUE, rows |-> StmtVisible(abbs, txn.db),
                    before |-> txn.before, meta |-> txn.meta, changes |-> txn.changes,
                    step |-> txn.step]
    /\ UNCHANGED <<testVars, gitVars, dbVars, runVars, ghostVars, txn, lastOp, ncalls, occupied>>

\* a reader reads the tables after add_package has committed
ReadAfter ==
    /\ txn.step = 0
    /\ lastOp.op = "add"
    /\ observed' = [on |-> TRUE, rows |-> abbs, before |-> lastOp.before,
                    meta |-> lastOp.meta, changes |-> lastOp.changes,
                    step |-> AddPackageSteps + 1]
    /\ UNCHANGED <<testVars, gitVars, dbVars, runVars, ghostVars, txn, lastOp, ncalls, occupied>>

NextDb ==
    \/ \E m \in StoreMetas : AddPackageBegin(m)
    \/ AddPackageStatement
    \/ AddPackageCommit
    \/ AddPackageRollback
    \/ \E n \in {"jade"} : DeletePackage(n)
    \/ ReadDuring
    \/ ReadAfter

SpecDb == Init /\ [][NextDb]_vars

(* ------------- the package database shared by stores of two trees ------------- *)

OtherTree == "U"

\* the stores of the two repositories that share the package database
Stores == {Self, [tree |-> OtherTree, branch |-> MainBranch]}

\* the metas handed to add_package: jade in extra-doc, with and without a parse
\* error, and jade in extra-misc
PlacedMetas ==
    UNION {scan_packages(OneCommit(t), 1, {[spec |-> SpecDoc, defines |-> DefDoc]}) :
             t \in {TreeOk, TreeErr}}
    \cup scan_packages(OneCommit(TreeMoved), 1, {[spec |-> SpecMisc, defines |-> DefMisc]})

\* a whole add_package call of a store
StoreAddPackage(self, m) ==
    /\ txn.step = 0
    /\ ncalls < MaxCalls
    /\ ncalls' = ncalls + 1
    /\ \E ch \in StoreChanges(m) : \E r \in {add_package_result(abbs, self, m, ch)} :
          /\ abbs' = r.db
          /\ lastOp' = IF r.ok
                        THEN [op |-> "add", before |-> abbs, meta |-> m, changes |-> ch,
                              self |-> self,
                              prior |-> IF lastOp.op = "delete" THEN lastOp ELSE NoOp]
                        ELSE [op |-> "failed", error |-> r.error, before |-> abbs,
                              meta |-> m]
          /\ occupied' = IF r.ok THEN occupied \cup {Location(self, m.pkg)}
                          ELSE occupied
    /\ UNCHANGED <<testVars, gitVars, commits, histories, runVars, ghostVars, txn, observed>>

\* a whole delete_package call of a store
StoreDeletePackage(self, n) ==
    /\ txn.step = 0
    /\ abbs' = delete_package(abbs, self, n)
    /\ lastOp' = [op |-> "delete", name |-> n, before |-> abbs, self |-> self]
    /\ UNCHANGED <<testVars, gitVars, commits, histories, runVars, ghostVars, txn, observed,
                   ncalls, occupied>>

NextStores ==
    \/ \E self \in Stores : \E m \in PlacedMetas : StoreAddPackage(self, m)
    \/ \E self \in Stores : \E n \in {"jade"} : StoreDeletePackage(self, n)

SpecStores == Init /\ [][NextStores]_vars

(* -------------------- versions, as v_packages shows them -------------------- *)
\* The stores open the package database and add and delete jade with every
\* epoch and release up to MaxNumber.

MaxNumber == 2

\* jade as scanned from a tree, version 1 or 2
VersionMetas ==
    UNION {scan_packages(OneCommit(t), 1, {[spec |-> SpecDoc, defines |-> DefDoc]}) :
             t \in {TreeOk, TreeNewVer}}

Opened(self) == \E t \in abbs.trees : t.name = self.tree /\ t.mainbranch = self.branch

\* AbbsDb::open
VersionOpen(self) ==
    /\ ~Opened(self)
    /\ abbs' = OpenStore(abbs, self)
    /\ lastOp' = [op |-> "open", self |-> self]
    /\ UNCHANGED <<testVars, gitVars, commits, histories, runVars, ghostVars, txn, observed,
                   ncalls, occupied>>

\* add_package of an opened store, for a package with epoch e and release r
VersionAddPackage(self, m, e, r) ==
    /\ Opened(self)
    /\ ncalls < MaxCalls
    /\ ncalls' = ncalls + 1
    /\ \E mm \in {[m EXCEPT !.pkg.epoch = e, !.pkg.release = r]} :
          /\ abbs' = add_package(abbs, self, mm,
                         ChangesOf(<<[commit_id |-> 1, pkg_version |-> mm.pkg.version]>>,
                                   self.tree, self.branch, mm.pkg.name))
          /\ lastOp' = [op |-> "add", meta |-> mm, self |-> self]
    /\ UNCHANGED <<testVars, gitVars, commits, histories, runVars, ghostVars, txn, observed,
                   occupied>>

\* delete_package of an opened store
VersionDeletePackage(self, n) ==
    /\ Opened(self)
    /\ abbs' = delete_package(abbs, self, n)
    /\ lastOp' = [op |-> "delete", name |-> n, self |-> self]
    /\ UNCHANGED <<testVars, gitVars, commits, histories, runVars, ghostVars, txn, observed,
                   ncalls, occupied>>

NextVersions ==
    \/ \E self \in Stores : VersionOpen(self)
    \/ \E self \in Stores : \E m \in VersionMetas : \E e, r \in 0..MaxNumber :
          VersionAddPackage(self, m, e, r)
    \/ \E self \in Stores : \E n \in {"jade"} : VersionDeletePackage(self, n)

SpecVersions == Init /\ [][NextVersions]_vars

(* ----------------------- what delete_package leaves ----------------------- *)
\* Stores bound to two trees and two branches add and delete jade, beside a
\* package of another name; the testing passes of the two trees leave
\* PackageTesting rows.

MaxFrameCalls == 4

FrameStores == Stores \cup {[tree |-> TreeName, branch |-> TopicBranch]}

\* the meta of a package of another name with the same files
Named(m, n) ==
    [m EXCEPT !.pkg.name = n,
              !.errors = [i \in 1..Len(m.errors) |-> [m.errors[i] EXCEPT !.package = n]]]

\* jade with a parse error
FrameMetas ==
    scan_packages(OneCommit(TreeErr), 1, {[spec |-> SpecDoc, defines |-> DefDoc]})

FrameAddPackage(self, m) ==
    /\ ncalls < MaxFrameCalls
    /\ ncalls' = ncalls + 1
    /\ abbs' = add_package(abbs, self, m,
                   ChangesOf(<<[commit_id |-> 1, pkg_version |-> m.pkg.version]>>,
                             self.tree, self.branch, m.pkg.name))
    /\ lastOp' = [op |-> "add", meta |-> m, self |-> self]
    /\ UNCHANGED <<testVars, gitVars, commits, histories, runVars, ghostVars, txn, observed,
                   occupied>>

\* the PackageTesting row update_testing_branch writes for jade on the testing
\* branch of a tree
FrameTestingRow(tree) ==
    /\ ncalls < MaxFrameCalls
    /\ ncalls' = ncalls + 1
    /\ abbs' = [abbs EXCEPT !.testing = @ \cup
                   {[package |-> "jade", tree |-> tree, branch |-> TopicBranch,
                     version |-> "2", spec_path |-> SpecDoc, defines_path |-> DefDoc,
                     commit |-> 1]}]
    /\ lastOp' = [op |-> "testing"]
    /\ UNCHANGED <<testVars, gitVars, commits, histories, runVars, ghostVars, txn, observed,
                   occupied>>

NextFrame ==
    \/ \E self \in FrameStores : \E m \in FrameMetas : FrameAddPackage(self, m)
    \/ \E m \in FrameMetas : FrameAddPackage(Self, Named(m, "opal"))
    \/ \E tree \in {TreeName, OtherTree} : FrameTestingRow(tree)
    \/ \E self \in FrameStores : \E n \in {"jade"} : StoreDeletePackage(self, n)

SpecFrame == Init /\ [][NextFrame]_vars

(* ------------------- update_testing_branch, step by step ------------------- *)
\* The repository has the tracked branch and one testing branch; both are pushed
\* to, force-pushed and merged between passes.  A pass is update_testing_branch:
\* update_package_testing, then the loop over the branches that have new infos
\* and over the infos of each, then the two deletes.

\* the commits of the repository of this specification, and the passes over it
MaxTestCommits == 4
MaxPasses == 2

\* the trees a commit of the testing branch may carry here
TestTreeChoices == {TreeOk, TreeNewVer}

TestBranches == {MainBranch, TopicBranch}

\* the parents of a commit pushed to branch b: its tip; a new testing branch
\* forks from the tracked branch when there is one
PushParents(b) ==
    IF b \in DOMAIN branches THEN <<branches[b]>>
    ELSE IF b = TopicBranch /\ MainBranch \in DOMAIN branches THEN <<Tip>>
    ELSE << >>

\* a commit with tree t is pushed to branch b
TestGitCommit(b, t) ==
    /\ pc \in {"idle", "done"}
    /\ Len(graph) < MaxTestCommits
    /\ graph' = Append(graph, [parents |-> PushParents(b), tree |-> t])
    /\ branches' = (b :> Len(graph) + 1) @@ branches
    /\ pc' = "idle"
    /\ UNCHANGED <<dbVars, deleted, updated, delcur, window, nruns, ghostVars,
                   storeVars, testVars>>

\* branch b is force-pushed to a commit with tree t that has no parent
TestGitRoot(b, t) ==
    /\ pc \in {"idle", "done"}
    /\ b \in DOMAIN branches
    /\ Len(graph) < MaxTestCommits
    /\ graph' = Append(graph, [parents |-> << >>, tree |-> t])
    /\ branches' = (b :> Len(graph) + 1) @@ branches
    /\ pc' = "idle"
    /\ UNCHANGED <<dbVars, deleted, updated, delcur, window, nruns, ghostVars,
                   storeVars, testVars>>

\* the testing branch merges the tracked branch, the merge commit carrying tree t
TestGitMerge(t) ==
    /\ pc \in {"idle", "done"}
    /\ TestBranches \subseteq DOMAIN branches
    /\ Tip \notin Reach(graph, branches[TopicBranch])
    /\ Len(graph) < MaxTestCommits
    /\ graph' = Append(graph, [parents |-> <<branches[TopicBranch], Tip>>, tree |-> t])
    /\ branches' = (TopicBranch :> Len(graph) + 1) @@ branches
    /\ pc' = "idle"
    /\ UNCHANGED <<dbVars, deleted, updated, delcur, window, nruns, ghostVars,
                   storeVars, testVars>>

\* the testing branch is rewound to a commit c below its tip
TestGitRewind(c) ==
    /\ pc \in {"idle", "done"}
    /\ TopicBranch \in DOMAIN branches
    /\ c \in Reach(graph, branches[TopicBranch]) \ {branches[TopicBranch]}
    /\ branches' = (TopicBranch :> c) @@ branches
    /\ pc' = "idle"
    /\ UNCHANGED <<graph, dbVars, deleted, updated, delcur, window, nruns, ghostVars,
                   storeVars, testVars>>

\* update_testing_branch, lines 381-384: update_package_testing has returned
\* and the tracked branch is scanned
TestingBegin ==
    /\ pc \in {"idle", "done"}
    /\ MainBranch \in DOMAIN branches
    /\ nruns < MaxPasses
    /\ nruns' = nruns + 1
    /\ \E upt \in {update_package_testing(commits, histories, graph, branches,
                                           TreeName, {})} :
          /\ commits' = upt.commits
          /\ histories' = upt.histories
          /\ tpass' = [on |-> TRUE, result |-> upt.result, todo |-> DOMAIN upt.result,
                       main |-> scan_branch(graph, Tip, MainTake),
                       branch |-> "", testing |-> << >>, last |-> -1,
                       infos |-> << >>, all |-> << >>, outdated |-> {}]
    /\ tstep' = NoStep
    /\ pc' = "testing"
    /\ UNCHANGED <<gitVars, abbs, deleted, updated, delcur, window, ghostVars, storeVars,
                   walked>>

\* the branch in hand once it is scanned and its divergence ordinal is known:
\* outdated when it has none, else its infos are to be gone through
BranchInHand(tp, b, testing, last) ==
    IF last < 0
    THEN [tp EXCEPT !.todo = @ \ {b}, !.outdated = @ \cup {b}, !.branch = "",
                    !.testing = << >>, !.last = -1, !.all = << >>]
    ELSE [tp EXCEPT !.todo = @ \ {b}, !.branch = b, !.testing = testing,
                    !.last = last, !.infos = tp.result[b], !.all = tp.result[b]]

\* update_testing_branch, lines 386-401: the next branch of the result
TestingBranchBegin ==
    /\ pc = "testing"
    /\ tpass.infos = << >>
    /\ \E b \in tpass.todo :
          \E testing \in {scan_branch(graph, branches[b], AllTake)} :
             tpass' = BranchInHand(tpass, b, testing, LastOrder(tpass.main, testing))
    /\ tstep' = NoStep
    /\ UNCHANGED <<gitVars, dbVars, runVars, ghostVars, storeVars, walked>>

\* update_testing_branch, lines 403-436: the next info of the branch in hand
TestingInfo ==
    /\ pc = "testing"
    /\ tpass.infos # << >>
    /\ \E after \in {TestingInfoStep(abbs.testing, tpass.testing, tpass.last,
                                       Head(tpass.infos), TreeName, tpass.branch)} :
          /\ abbs' = [abbs EXCEPT !.testing = after]
          /\ tstep' = [on |-> TRUE, info |-> Head(tpass.infos),
                       before |-> abbs.testing, after |-> after]
    /\ tpass' = [tpass EXCEPT !.infos = Tail(@)]
    /\ UNCHANGED <<gitVars, commits, histories, runVars, ghostVars, storeVars, walked>>

\* update_testing_branch, lines 439-454: the rows of branches that are gone and
\* of outdated branches are deleted
TestingEnd ==
    /\ pc = "testing"
    /\ tpass.infos = << >>
    /\ tpass.todo = {}
    /\ abbs' = [abbs EXCEPT !.testing =
                   TestingCleanup(@, TreeName, DOMAIN branches, tpass.outdated)]
    /\ tpass' = NoPass
    /\ tstep' = NoStep
    /\ pc' = "done"
    /\ UNCHANGED <<gitVars, commits, histories, deleted, updated, delcur, window,
                   nruns, ghostVars, storeVars, walked>>

NextTesting ==
    \/ TestGitCommit(MainBranch, TreeOk)
    \/ \E t \in TestTreeChoices : TestGitCommit(TopicBranch, t)
    \/ \E b \in TestBranches : TestGitRoot(b, TreeOk)
    \/ TestGitMerge(TreeNewVer)
    \/ \E c \in 1..MaxTestCommits : TestGitRewind(c)
    \/ TestingBegin
    \/ TestingBranchBegin
    \/ TestingInfo
    \/ TestingEnd

SpecTesting == Init /\ [][NextTesting]_vars

(* ------------------------- get_commits_by_range ------------------------- *)
\* Commits with no, one or two parents are added to the repository, and
\* get_commits_by_range is called with any `to` and any `from` that is absent or
\* an ancestor of `to` (or `to` itself).

\* the parents a new commit may have: none, one commit, or two (a merge)
ParentChoices ==
    {<< >>} \cup {<<p>> : p \in 1..Len(graph)}
    \cup {<<x[1], x[2]>> : x \in {y \in (1..Len(graph)) \X (1..Len(graph)) : y[1] > y[2]}}

RangeGitCommit(ps) ==
    /\ Len(graph) < MaxTestCommits
    /\ graph' = Append(graph, [parents |-> ps, tree |-> TreeOk])
    /\ branches' = (MainBranch :> Len(graph) + 1) @@ branches
    /\ UNCHANGED <<dbVars, runVars, ghostVars, storeVars, testVars>>

RangeCall(from, to) ==
    /\ to \in 1..Len(graph)
    /\ from \in Reach(graph, to) \cup {NoCommit}
    /\ walked' = [on |-> TRUE, from |-> from, to |-> to,
                  result |-> get_commits_by_range(graph, from, to)]
    /\ UNCHANGED <<gitVars, dbVars, runVars, ghostVars, storeVars, tpass, tstep>>

NextRange ==
    \/ \E ps \in ParentChoices : RangeGitCommit(ps)
    \/ \E from \in 0..MaxTestCommits : \E to \in 1..MaxTestCommits : RangeCall(from, to)

SpecRange == Init /\ [][NextRange]_vars

(* ------------------- update_package_testing, pass by pass ------------------- *)
\* The repository has branches update_package_testing leaves out by name, one the
\* caller excludes, and one testing branch; each push changes the version of jade.

MaxAheadCommits == 5

AheadBranches == {MainBranch, TopicBranch, "retro-1", "wip"}

\* the exclude sets of the caller
ExcludeChoices == {{}, {"wip"}}

\* the parents of a commit pushed to b: b's tip, or the tracked branch's tip for
\* a new branch
AheadParents(b) ==
    IF b \in DOMAIN branches THEN <<branches[b]>>
    ELSE IF MainBranch \in DOMAIN branches THEN <<Tip>>
    ELSE << >>

\* the tree of a commit on top of ps: the version of jade changes
AheadTree(ps) ==
    IF ps # << >> /\ TreeOf(graph, ps[1]) = TreeOk THEN TreeNewVer ELSE TreeOk

\* a push to b; the branches that are left out or excluded get one commit each
AheadGitCommit(b) ==
    /\ Len(graph) < MaxAheadCommits
    /\ b \in {"retro-1", "wip"} => b \notin DOMAIN branches
    /\ graph' = Append(graph, [parents |-> AheadParents(b), tree |-> AheadTree(AheadParents(b))])
    /\ branches' = (b :> Len(graph) + 1) @@ branches
    /\ UNCHANGED <<dbVars, runVars, ghostVars, storeVars, testVars>>

\* one call of update_package_testing
AheadPass(exclude) ==
    /\ MainBranch \in DOMAIN branches
    /\ nruns < MaxPasses
    /\ nruns' = nruns + 1
    /\ \E upt \in {update_package_testing(commits, histories, graph, branches,
                                           TreeName, exclude)} :
          /\ commits' = upt.commits
          /\ histories' = upt.histories
          /\ lastOp' = [op |-> "testing", exclude |-> exclude, result |-> upt.result,
                        before |-> [commits |-> commits, histories |-> histories],
                        branches |-> branches]
    /\ UNCHANGED <<gitVars, abbs, pc, deleted, updated, delcur, window, ghostVars,
                   txn, observed, ncalls, occupied, testVars>>

NextAhead ==
    \/ \E b \in AheadBranches : AheadGitCommit(b)
    \/ \E exclude \in ExcludeChoices : AheadPass(exclude)

SpecAhead == Init /\ [][NextAhead]_vars

(* ------------------ the cleanup of update_testing_branch ------------------ *)
\* The passes of SpecTesting over a repository whose testing branch can be
\* deleted, with the package database shared with the store of another tree that
\* writes PackageTesting rows of its own.

\* the testing branch is deleted
TestGitDelete ==
    /\ pc \in {"idle", "done"}
    /\ TopicBranch \in DOMAIN branches
    /\ branches' = [b \in (DOMAIN branches) \ {TopicBranch} |-> branches[b]]
    /\ pc' = "idle"
    /\ UNCHANGED <<graph, dbVars, deleted, updated, delcur, window, nruns, ghostVars,
                   storeVars, testVars>>

\* a PackageTesting row of jade in the other tree, on branch b
OtherTreeRow(b) ==
    [package |-> "jade", tree |-> OtherTree, branch |-> b, version |-> "2",
     spec_path |-> SpecDoc, defines_path |-> DefDoc, commit |-> 1]

\* update_testing_branch of the store of the other tree writes a row
OtherTreeTesting(b) ==
    /\ OtherTreeRow(b) \notin abbs.testing
    /\ abbs' = [abbs EXCEPT !.testing = @ \cup {OtherTreeRow(b)}]
    /\ lastOp' = [op |-> "other"]
    /\ UNCHANGED <<gitVars, commits, histories, runVars, ghostVars, txn, observed, ncalls,
                   occupied, testVars>>

\* update_testing_branch, lines 439-454, the end of the pass
CleanupEnd ==
    /\ pc = "testing"
    /\ tpass.infos = << >>
    /\ tpass.todo = {}
    /\ abbs' = [abbs EXCEPT !.testing =
                   TestingCleanup(@, TreeName, DOMAIN branches, tpass.outdated)]
    /\ lastOp' = [op |-> "cleanup", before |-> abbs.testing, outdated |-> tpass.outdated]
    /\ tpass' = NoPass
    /\ tstep' = NoStep
    /\ pc' = "done"
    /\ UNCHANGED <<gitVars, commits, histories, deleted, updated, delcur, window,
                   nruns, ghostVars, txn, observed, ncalls, occupied, walked>>

NextCleanup ==
    \/ TestGitCommit(MainBranch, TreeOk)
    \/ TestGitCommit(TopicBranch, TreeNewVer)
    \/ TestGitRoot(MainBranch, TreeOk)
    \/ TestGitDelete
    \/ \E b \in {TopicBranch, "gone"} : OtherTreeTesting(b)
    \/ TestingBegin
    \/ TestingBranchBegin
    \/ TestingInfo
    \/ CleanupEnd

SpecCleanup == Init /\ [][NextCleanup]_vars

(* --------------------------- the path classifier --------------------------- *)
\* Commits are pushed to the tracked branch; path_to_defines_path is called for a
\* commit and a path, and again after later pushes; add_commits classifies the
\* deltas of a commit.

\* jade with a second defines above the package directory
TreeNested == (<<"extra-doc", "defines">> :> "ok") @@ TreeNewVer

ClassifyTrees == {TreeOk, TreeTwoDefines, TreeMoved, TreeNoDefines, TreeNested}

\* the file paths classified: those of the model and two that no tree holds
ClassifyPaths ==
    Paths \cup {<<"README">>, <<"extra-misc", "jade", "autobuild", "overrides", "x">>}

ClassifyGitCommit(t) ==
    /\ Len(graph) < MaxCommits
    /\ graph' = Append(graph, [parents |-> IF MainBranch \in DOMAIN branches
                                            THEN <<Tip>> ELSE << >>,
                               tree |-> t])
    /\ branches' = (MainBranch :> Len(graph) + 1) @@ branches
    /\ UNCHANGED <<dbVars, runVars, ghostVars, storeVars, testVars>>

\* path_to_defines_path(repo, commit, path)
Classify(c, p) ==
    /\ c \in 1..Len(graph)
    /\ \E r \in {path_to_defines_path(graph, c, p)} :
          lastOp' = [op |-> "classify", commit |-> c, path |-> p, result |-> r,
                     again |-> r, calls |-> 1]
    /\ UNCHANGED <<gitVars, dbVars, runVars, ghostVars, txn, observed, ncalls, occupied,
                   testVars>>

\* the same call once more
ClassifyAgain ==
    /\ lastOp.op = "classify"
    /\ lastOp.calls = 1
    /\ lastOp' = [lastOp EXCEPT !.again = path_to_defines_path(graph, lastOp.commit,
                                                                 lastOp.path),
                                !.calls = 2]
    /\ UNCHANGED <<gitVars, dbVars, runVars, ghostVars, txn, observed, ncalls, occupied,
                   testVars>>

\* add_commits, lines 127-148, on delta i of commit c
ClassifyDelta(c, i) ==
    /\ c \in 1..Len(graph)
    /\ i \in 1..Len(ScanCommit(graph, c))
    /\ \E e \in {ScanCommit(graph, c)[i]} :
          lastOp' = [op |-> "delta", delta |-> e, base |-> BaseCommit(graph, e),
                     infos |-> InfoOfDelta(graph, e)]
    /\ UNCHANGED <<gitVars, dbVars, runVars, ghostVars, txn, observed, ncalls, occupied,
                   testVars>>

NextClassify ==
    \/ \E t \in ClassifyTrees : ClassifyGitCommit(t)
    \/ \E c \in 1..MaxCommits : \E p \in ClassifyPaths : Classify(c, p)
    \/ ClassifyAgain
    \/ \E c \in 1..MaxCommits : \E i \in 1..Len(PathOrder) : ClassifyDelta(c, i)

SpecClassify == Init /\ [][NextClassify]_vars

(* ------------------ the order of the infos of a branch ------------------ *)
\* update_package_testing hands add_commits a HashSet of commits, so the commits
\* of a branch are scanned in any order; scan_commits and add_commits collect in
\* the order of their input, so the infos of one commit stay in the order of its
\* deltas.  The pass over the testing branch is taken as one step.
OrderTreeChoices == {TreeOk, TreeNewVer, TreeTwoDefines}

RECURSIVE Perms(_)
Perms(S) ==
    IF S = {} THEN {<< >>}
    ELSE UNION {{<<x>> \o p : p \in Perms(S \ {x})} : x \in S}

InfoCommits(infos) == {infos[i].commit_id : i \in 1..Len(infos)}

\* the infos with the commits in the given order
InfosInOrder(infos, order) ==
    Flatten([i \in 1..Len(order) |->
                SelectSeq(infos, LAMBDA x : x.commit_id = order[i])])

\* update_testing_branch, lines 386-437, for the testing branch, its commits
\* having been scanned in the given order
OrderBranch(rows, infos, order, main, testing) ==
    TestingBranchScanned([rows |-> rows, outdated |-> {}], main, testing,
                         InfosInOrder(infos, order), TreeName, TopicBranch)

\* update_testing_branch for a repository with one testing branch
\* the infos update_package_testing returned for the testing branch
OrderInfos(result) ==
    IF TopicBranch \in DOMAIN result THEN result[TopicBranch] ELSE << >>

\* update_testing_branch for a repository with one testing branch
OrderPass ==
    /\ pc \in {"idle", "done"}
    /\ TestBranches \subseteq DOMAIN branches
    /\ nruns < MaxPasses
    /\ nruns' = nruns + 1
    /\ \E upt \in {update_package_testing(commits, histories, graph, branches,
                                           TreeName, {})} :
          /\ commits' = upt.commits
          /\ histories' = upt.histories
          /\ \E order \in Perms(InfoCommits(OrderInfos(upt.result))) :
             \E st \in {IF TopicBranch \in DOMAIN upt.result
                        THEN OrderBranch(abbs.testing, upt.result[TopicBranch], order,
                                         scan_branch(graph, Tip, MainTake),
                                         scan_branch(graph, branches[TopicBranch],
                                                     AllTake))
                        ELSE [rows |-> abbs.testing, outdated |-> {}]} :
                /\ abbs' = [abbs EXCEPT !.testing =
                               TestingCleanup(st.rows, TreeName, DOMAIN branches,
                                              st.outdated)]
                /\ lastOp' = [op |-> "order", before |-> abbs.testing,
                              infos |-> OrderInfos(upt.result), order |-> order,
                              after |-> st.rows, outdated |-> st.outdated]
    /\ pc' = "done"
    /\ UNCHANGED <<gitVars, deleted, updated, delcur, window, ghostVars, txn, observed,
                   ncalls, occupied, testVars>>

NextOrder ==
    \/ TestGitCommit(MainBranch, TreeOk)
    \/ \E t \in OrderTreeChoices : TestGitCommit(TopicBranch, t)
    \/ TestGitMerge(TreeNewVer)
    \/ OrderPass

SpecOrder == Init /\ [][NextOrder]_vars

(* ------------------------------ properties ----------------------------- *)

MainHistories == get_branch_histories(histories, TreeName, MainBranch)

\* C1: a completed run that started where a completed run left the databases, the
\* repository unchanged in between, leaves every row of the commit database and of
\* the package database as it was (History rows apart)
RerunChangesNoRow ==
    (pc = "done" /\ rerun) => (commits = snap.commits /\ abbs = snap.abbs)

\* C2: the window of get_updated_packages runs from the commit of the second most
\* recent History row (absent when there is one row only) to the commit of the
\* most recent one
WindowIsLatestTwo ==
    pc = "reconcile" =>
        /\ window.to = MainHistories[Len(MainHistories)].commit_id
        /\ window.from = IF Len(MainHistories) = 1 THEN NoCommit
                         ELSE MainHistories[Len(MainHistories) - 1].commit_id

\* every package of the killed run's deleted and updated sets is applied
PendingApplied ==
    /\ \A u \in pending.updated :
          \E r \in abbs.versions :
             r.package = u[1] /\ r.version = u[2] /\ r.branch = MainBranch
    /\ \A n \in pending.deleted :
          \/ \E u \in pending.updated : u[1] = n
          \/ ~\E r \in abbs.packages : r.name = n /\ r.tree = TreeName

\* C3: once a run was killed after update_branch wrote its History row, a run that
\* completes on the unchanged repository after another completed run has applied
\* every package of the killed run's deleted and updated sets
RerunConverges ==
    (pc = "done" /\ rerun /\ pending.on) => PendingApplied

\* the Commit rows of a scan of commit c on the tracked branch
RowsOfCommit(c) == Range(CommitRows(CommitInfos(graph, <<c>>), TreeName, MainBranch))

\* the Commit rows of the commits reachable from tip, on the tracked branch
RowsUpTo(tip) == UNION {RowsOfCommit(c) : c \in Reach(graph, tip)}

\* the commits add_commits has handled on the tracked branch
Handled ==
    UNION {Reach(graph, MainHistories[i].commit_id) : i \in 1..Len(MainHistories)}

MainRows == {r \in commits : r.tree = TreeName /\ r.branch = MainBranch}

Keys(rows) == {CommitKey(r) : r \in rows}

\* the table holds rows of the scan only, one for each of its keys
SameTable(table, scanned) == table \subseteq scanned /\ Keys(table) = Keys(scanned)

\* C4: a History row of the tracked branch is there only when the Commit rows of
\* every commit reachable from its tip are; and when update_branch returns, after a kill
\* between its two writes or not, the table holds the rows of the commits up to
\* the tip, one per key, and the latest History row is the tip's
HistoryAfterCommits ==
    /\ \A c \in Handled : Keys(RowsOfCommit(c)) \subseteq Keys(MainRows)
    /\ pc = "updated" =>
          /\ SameTable(MainRows, RowsUpTo(Tip))
          /\ get_latest_history(histories, TreeName, MainBranch) = Tip

\* C4, witness: update_branch has returned in the run after one that was killed
\* between add_commits and insert_history, and rows were written
HistoryAfterCommitsSeen ==
    pc = "updated" /\ lagging /\ MainRows # {}

\* C6: the commits table holds at most one row per (pkg_name, pkg_version, tree,
\* branch, commit_id)
OneRowPerKey ==
    \A r1 \in commits : \A r2 \in commits : CommitKey(r1) = CommitKey(r2) => r1 = r2

\* C6, witness: add_commits ran a second time over a range that holds a commit
\* touching two defines of one package, and update_package_testing wrote rows
OneRowPerKeySeen ==
    /\ pc = "committed"
    /\ lagging
    /\ \E r \in commits : r.branch = MainBranch /\ r.defines_path = DefSub
    /\ \E r \in commits : r.branch = TopicBranch

DeletedDeltas(c) ==
    {e \in Range(ScanCommit(graph, c)) : e.status = "Deleted"}

\* C7: a Commit row that a Deleted delta of a handled commit yields carries the id
\* of the commit's first parent
DeletedRowsCarryParent ==
    \A c \in Handled : \A e \in DeletedDeltas(c) :
       \A info \in Range(InfoOfDelta(graph, e)) :
          CommitRow(info, TreeName, MainBranch) \in commits
             => info.commit_id = graph[c].parents[1]

\* the changed (spec, defines) pairs of the window whose package does not build
FailedBuilds ==
    {x \in PathPairs({y \in UpdatedDiff(graph, window.from, window.to) :
                        y.status \in {"Modified", "Added"}}) :
       /\ ~scan_package(graph, window.to, x.spec, x.defines).some
       /\ scan_package(graph, window.to, x.spec, x.defines).errors # << >>}

\* the Package, PackageVersion, PackageSpec and PackageDependency rows of a name
MetaRows(db, n) ==
    [packages |-> {r \in db.packages : r.name = n},
     versions |-> {r \in db.versions : r.package = n},
     spec |-> {r \in db.spec : r.package = n},
     deps |-> {r \in db.deps : r.package = n}]

\* the builder's error and the parse errors of every failed build are PackageError
\* rows
FailuresAreRows ==
    \A x \in FailedBuilds :
       \A e \in Range(scan_package(graph, window.to, x.spec, x.defines).errors) :
          BagIn(ErrorRow(e, Self), abbs.errors)

\* the rows a package had before the run are as they were when its build failed
FailuresKeepRows ==
    \A x \in FailedBuilds :
       MetaRows(abbs, x.defines[Len(x.defines) - 2])
          = MetaRows(snap.abbs, x.defines[Len(x.defines) - 2])

\* C10: when a run has reconciled, for every changed package whose builder failed
\* the builder's error and the parse errors are PackageError rows, and the rows the
\* package had before the run are as they were
BuilderFailureRecorded ==
    (pc = "done" /\ window.to # NoCommit) => (FailuresAreRows /\ FailuresKeepRows)

\* the rows of a bag of PackageError rows that belong to package n
ErrorsOf(bag, n) == [e \in {x \in DOMAIN bag : x.package = n} |-> bag[e]]

\* the rows of package n in the seven tables add_package writes
PackageView(db, n) ==
    [packages |-> {r \in db.packages : r.name = n},
     fts |-> {r \in db.fts : r.name = n},
     changes |-> {r \in db.changes : r.package = n},
     versions |-> {r \in db.versions : r.package = n},
     spec |-> {r \in db.spec : r.package = n},
     deps |-> {r \in db.deps : r.package = n},
     errors |-> ErrorsOf(db.errors, n)]

\* C5: what a reader sees of a package beside an add_package call is all of its
\* rows as they were before the call or all of them as they are after it
ReaderSeesBeforeOrAfter ==
    observed.on =>
        \/ PackageView(observed.rows, observed.meta.pkg.name)
              = PackageView(observed.before, observed.meta.pkg.name)
        \/ PackageView(observed.rows, observed.meta.pkg.name)
              = PackageView(add_package(observed.before, Self, observed.meta,
                                        observed.changes),
                            observed.meta.pkg.name)

\* C5, witness: the reader read after the PackageSpec rows were deleted and
\* reinserted inside a transaction that replaces a package's rows
ReaderSeesBeforeOrAfterSeen ==
    /\ observed.on
    /\ observed.step \in 7..AddPackageSteps
    /\ observed.before.spec # {}
    /\ observed.before # add_package(observed.before, Self, observed.meta, observed.changes)

\* C8: once add_package has committed for a package, its PackageSpec rows are the
\* (key, value) pairs of the context of that call
SpecIsLatestContext ==
    (lastOp.op = "add" /\ txn.step = 0) =>
        {r \in abbs.spec : r.package = lastOp.meta.pkg.name}
           = {[package |-> lastOp.meta.pkg.name, key |-> k, value |-> lastOp.meta.context[k]] :
                k \in DOMAIN lastOp.meta.context}

\* C8, witness: add_package has committed with a context that lacks a key the
\* package had a PackageSpec row for
SpecIsLatestContextSeen ==
    /\ lastOp.op = "add"
    /\ txn.step = 0
    /\ \E r \in lastOp.before.spec :
          r.package = lastOp.meta.pkg.name /\ r.key \notin DOMAIN lastOp.meta.context

\* the number of times a row is among the errors of a meta
Supplied(row, errors) ==
    Cardinality({i \in 1..Len(errors) : ErrorRow(errors[i], Self) = row})

\* C9: once add_package has committed for a package, its PackageError rows are the
\* errors of that call, each once
ErrorsAreLatest ==
    (lastOp.op = "add" /\ txn.step = 0) =>
        /\ \A row \in DOMAIN ErrorsOf(abbs.errors, lastOp.meta.pkg.name) :
              CopiesIn(row, abbs.errors) = Supplied(row, lastOp.meta.errors)
        /\ \A i \in 1..Len(lastOp.meta.errors) :
              BagIn(ErrorRow(lastOp.meta.errors[i], Self), abbs.errors)

\* the PackageDuplicate rows of a package name
DuplicatesOf(n) == {r \in abbs.duplicate : r.package = n}

\* C11: for every package name, the PackageDuplicate rows of the name are the
\* locations (tree, category, section, directory) at which add_package calls of
\* the stores committed the package
DuplicatesAreOccupied ==
    \A n \in {"jade"} : DuplicatesOf(n) = {l \in occupied : l.package = n}

\* the first run has completed over a tracked branch of one commit, C1 = 1
FreshRunDone ==
    pc = "done" /\ nruns = 1 /\ Len(graph) = 1 /\ graph[1].tree \in FreshTrees

\* C12: starting from empty databases, one run over a tracked branch whose only
\* commit adds the spec and the defines of jade ends with exactly one Package row
\* (jade, tree T), exactly one PackageVersion row (jade, stable, "") with the
\* parsed version, exactly one Commit row (jade, version, T, stable, C1) and a
\* History row of C1
FreshAdd ==
    FreshRunDone =>
        /\ Cardinality(abbs.packages) = 1
        /\ \A r \in abbs.packages :
              /\ r.name = "jade" /\ r.tree = TreeName /\ r.directory = "jade"
              /\ r.section = IF graph[1].tree = TreeMoved THEN "misc" ELSE "doc"
        /\ Cardinality(abbs.versions) = 1
        /\ \A r \in abbs.versions :
              /\ r.package = "jade" /\ r.branch = MainBranch /\ r.architecture = ""
              /\ r.version = "1" /\ r.githash = 1
        /\ Cardinality(commits) = 1
        /\ \A r \in commits :
              /\ r.pkg_name = "jade" /\ r.pkg_version = "1" /\ r.tree = TreeName
              /\ r.branch = MainBranch /\ r.commit_id = 1
        /\ \E i \in 1..Len(histories) :
              /\ histories[i].tree = TreeName /\ histories[i].branch = MainBranch
              /\ histories[i].commit_id = 1

\* a first run over the one-commit branch has completed
FreshAddSeen == FreshRunDone /\ graph[1].tree = TreeOk

\* jade at a section of extra, as a PackageDuplicate row of the tracked tree
JadeAt(section) ==
    [package |-> "jade", tree |-> TreeName, category |-> "extra",
     section |-> section, directory |-> "jade"]

\* a run indexed C1 = 1 with jade in extra-doc and left its Package row, C2 = 2
\* moved jade to extra-misc, and the run that indexed C2 has completed
MovedRunDone ==
    /\ pc = "done" /\ nruns = 2 /\ Len(graph) = 2
    /\ graph[1].tree = TreeOk /\ graph[2].tree = TreeMoved
    /\ Len(histories) = 2
    /\ histories[1].commit_id = 1 /\ histories[2].commit_id = 2
    /\ \E r \in snap.abbs.packages : r.name = "jade" /\ r.section = "doc"

\* C13: after the run over the commit that moved jade from extra-doc to
\* extra-misc, the Package row of jade has section misc and PackageDuplicate holds
\* both the old and the new location
MoveKeepsBoth ==
    MovedRunDone =>
        /\ \E r \in abbs.packages : r.name = "jade" /\ r.section = "misc"
        /\ {JadeAt("doc"), JadeAt("misc")} \subseteq abbs.duplicate

\* a run indexed C1 = 1 with jade in extra-doc and left its Package row, C2 = 2
\* removed the defines of jade, and a second run has indexed C2
DeleteIndexed ==
    /\ nruns = 2 /\ Len(graph) = 2
    /\ graph[1].tree = TreeOk /\ graph[2].tree \in {EmptyTree, TreeNoDefines}
    /\ Len(histories) = 2
    /\ histories[1].commit_id = 1 /\ histories[2].commit_id = 2
    /\ \E r \in snap.abbs.packages : r.name = "jade"

\* get_updated_packages reports jade as deleted once C2 is indexed
DeleteReported ==
    (pc = "updated" /\ DeleteIndexed) =>
        \E m \in get_updated_packages(graph, histories, TreeName, MainBranch).deleted :
           m.pkg.name = "jade"

\* no row of a package is left for the tracked tree
NoRowOf(db, n) ==
    /\ ~\E r \in db.packages : r.name = n /\ r.tree = TreeName
    /\ ~\E r \in db.versions : r.package = n
    /\ ~\E r \in db.spec : r.package = n
    /\ ~\E r \in db.deps : r.package = n
    /\ ~\E r \in db.fts : r.name = n
    /\ ~\E e \in DOMAIN db.errors : e.package = n /\ e.tree = TreeName
    /\ ~\E r \in db.testing : r.package = n /\ r.tree = TreeName

\* the run that indexed C2 leaves no row of jade
DeleteRemovesAll == (pc = "done" /\ DeleteIndexed) => NoRowOf(abbs, "jade")

\* C14: after a commit that removes the defines of a package has been indexed,
\* get_updated_packages reports the package as deleted, and after the run's
\* delete_package no Package, PackageVersion, PackageSpec, PackageDependency,
\* FtsPackage, PackageError or PackageTesting row of the package remains for the
\* tree
DeletedPackageIsGone == DeleteReported /\ DeleteRemovesAll

\* the last two calls were delete_package(name) and add_package(meta, changes) of
\* one store, the meta being of that name
DeletedThenAdded ==
    /\ lastOp.op = "add"
    /\ lastOp.prior.op = "delete"
    /\ lastOp.prior.self = lastOp.self
    /\ lastOp.prior.name = lastOp.meta.pkg.name

\* C15: delete_package(name) followed by add_package(meta, changes), the change
\* list not empty, leaves every table as add_package(meta, changes) alone would
\* have, from any state of the package database
DeleteThenAddIsAdd ==
    DeletedThenAdded =>
        abbs = add_package(lastOp.prior.before, lastOp.self, lastOp.meta, lastOp.changes)

\* the same, the PackageDuplicate and PackageError tables apart
DeleteThenAddIsAddElsewhere ==
    DeletedThenAdded =>
        \E r \in {add_package(lastOp.prior.before, lastOp.self, lastOp.meta,
                               lastOp.changes)} :
           [abbs EXCEPT !.duplicate = {}, !.errors = EmptyBag]
              = [r EXCEPT !.duplicate = {}, !.errors = EmptyBag]

\* a turn of the loop over the infos has just been taken, for an info whose
\* commit has a testing order
RuleApplied ==
    pc = "testing" /\ tstep.on /\ tstep.info.commit_id \in DOMAIN tpass.testing

\* the PackageTesting rows of the package of the turn's info on the branch in hand
OwnRows(rows) ==
    {r \in rows : r.package = tstep.info.pkg_name /\ r.tree = TreeName
                  /\ r.branch = tpass.branch}

\* new: the testing order of the info's commit
NewOrder == tpass.testing[tstep.info.commit_id]

\* db_current: the testing order of the commit the package's row held before the
\* turn, 100000 when there was no row or its commit is not on the branch
DbCurrent ==
    IF \E r \in OwnRows(tstep.before) : r.commit \in DOMAIN tpass.testing
    THEN tpass.testing[(CHOOSE r \in OwnRows(tstep.before) : TRUE).commit]
    ELSE 100000

\* the row of the turn's info
InfoRow ==
    [package |-> tstep.info.pkg_name, tree |-> TreeName, branch |-> tpass.branch,
     version |-> tstep.info.pkg_version, spec_path |-> tstep.info.spec_path,
     defines_path |-> tstep.info.defines_path, commit |-> tstep.info.commit_id]

UpsertCase == NewOrder < DbCurrent /\ NewOrder <= tpass.last
DeleteCase == NewOrder > tpass.last /\ DbCurrent > tpass.last

\* C16: for each info whose commit has a testing order, the package's row is
\* upserted to the info's commit exactly when new < db_current and new <= last,
\* deleted exactly when new > last and db_current > last, and no row changes in
\* any other case
TestingRuleHolds ==
    RuleApplied =>
        tstep.after =
           IF UpsertCase THEN (tstep.before \ OwnRows(tstep.before)) \cup {InfoRow}
           ELSE IF DeleteCase THEN tstep.before \ OwnRows(tstep.before)
           ELSE tstep.before

\* a turn that replaced the row of a package by the one of a newer commit
TestingRuleUpserted ==
    RuleApplied /\ UpsertCase /\ OwnRows(tstep.before) # {} /\ tstep.after # tstep.before

\* a turn in the delete case
TestingRuleDeleted == RuleApplied /\ DeleteCase

\* a turn in neither case, the package having a row
TestingRuleKept == RuleApplied /\ ~UpsertCase /\ ~DeleteCase /\ OwnRows(tstep.before) # {}

\* a turn in the delete case that removed a row
TestingRuleRemoved == RuleApplied /\ DeleteCase /\ tstep.after # tstep.before

\* the loop over the infos of the branch in hand has come to its end
PassOverBranch ==
    pc = "testing" /\ tpass.on /\ tpass.branch # "" /\ tpass.infos = << >>

\* no turn of a pass over the infos changes a row
RECURSIVE QuietPass(_, _, _, _, _)
QuietPass(rows, testing, last, infos, branch) ==
    \/ infos = << >>
    \/ /\ TestingInfoStep(rows, testing, last, Head(infos), TreeName, branch) = rows
       /\ QuietPass(rows, testing, last, Tail(infos), branch)

\* C17: a second pass of the rule over the same infos, with the same testing
\* orders and the same last, changes no PackageTesting row
SecondPassIsQuiet ==
    PassOverBranch =>
        QuietPass(abbs.testing, tpass.testing, tpass.last, tpass.all, tpass.branch)

\* a pass over infos of two commits that left a row on the branch
SecondPassIsQuietSeen ==
    /\ PassOverBranch
    /\ \E i, j \in 1..Len(tpass.all) : tpass.all[i].commit_id # tpass.all[j].commit_id
    /\ \E r \in abbs.testing : r.branch = tpass.branch

\* branch b has no commit among the most recent 1000 of the tracked branch
SharesNoCommit(b) ==
    (DOMAIN scan_branch(graph, branches[b], AllTake))
       \cap (DOMAIN scan_branch(graph, Tip, MainTake)) = {}

\* C18: after update_testing_branch no PackageTesting row is left for a testing
\* branch that shares no commit with the most recent 1000 commits of the tracked
\* branch, whether or not the branch has new commits since its last History tip
OutdatedBranchHasNoRow ==
    pc = "done" =>
        \A b \in TestingBranches(branches, {}) :
           SharesNoCommit(b) =>
              ~\E r \in abbs.testing : r.tree = TreeName /\ r.branch = b

\* the tip of the testing branch is a commit of the tracked branch: the branch
\* lies at or below the point where it diverged
TopicNotAhead ==
    /\ TestBranches \subseteq DOMAIN branches
    /\ branches[TopicBranch] \in Reach(graph, Tip)

\* C19: once a testing branch that has a PackageTesting row is rewound to or
\* below its divergence point from stable, the next update_testing_branch leaves
\* no PackageTesting row of the branch
RewoundBranchHasNoRow ==
    (pc = "done" /\ TopicNotAhead) =>
        ~\E r \in abbs.testing : r.tree = TreeName /\ r.branch = TopicBranch

\* C20: add_package called with an empty change list fails with "cannot find
\* changes of package, please update commit database" and leaves every table of
\* the package database as it was
NoChangesNoWrite ==
    lastOp.op = "failed" =>
        /\ lastOp.error = "cannot find changes of package, please update commit database"
        /\ abbs = lastOp.before

\* a failed call for a package that is in the database at another location, with
\* PackageDuplicate and PackageError rows
NoChangesNoWriteSeen ==
    /\ lastOp.op = "failed"
    /\ \E r \in abbs.packages :
          r.name = lastOp.meta.pkg.name /\ r.section # lastOp.meta.pkg.section
    /\ abbs.duplicate # {}
    /\ abbs.errors # EmptyBag

\* the text the full version of a package is expected to be
ExpectedFullVersion(pkg) ==
    (IF pkg.epoch > 0 THEN <<IntToStr(pkg.epoch), ":">> ELSE << >>)
    \o <<pkg.version>>
    \o (IF pkg.release > 0 THEN <<"-", IntToStr(pkg.release)>> ELSE << >>)

\* the rows of v_packages for the package and the branch of the last add_package
ShownRows == {row \in v_packages(abbs) : /\ row.name = lastOp.meta.pkg.name
                                          /\ row.branch = lastOp.self.branch}

\* C21: after add_package of a package with version v, epoch e and release r,
\* v_packages shows one row for the package on the store's mainbranch, its
\* full_version is [e ":"] v ["-" r] with the parts of a zero e or r left out,
\* and the PackageVersion row holds NULL for a zero epoch or release
FullVersionShown ==
    lastOp.op = "add" =>
        /\ Cardinality(ShownRows) = 1
        /\ \A row \in ShownRows : row.full_version = ExpectedFullVersion(lastOp.meta.pkg)
        /\ \A pv \in abbs.versions :
              (pv.package = lastOp.meta.pkg.name /\ pv.branch = lastOp.self.branch) =>
                 /\ (lastOp.meta.pkg.epoch = 0 <=> pv.epoch = "NULL")
                 /\ (lastOp.meta.pkg.release = 0 <=> pv.release = "NULL")

\* a package with an epoch and a zero release, added by the store of the other
\* tree over the row the first store wrote
FullVersionShownSeen ==
    /\ lastOp.op = "add"
    /\ lastOp.meta.pkg.epoch > 0
    /\ lastOp.meta.pkg.release = 0
    /\ lastOp.self.tree = OtherTree
    /\ ncalls > 1
    /\ \E row \in ShownRows : row.full_version = <<IntToStr(lastOp.meta.pkg.epoch), ":", "2">>

\* the commits reachable from walked.to that are not reachable from walked.from
RangeExpected == Reach(graph, walked.to) \ Reach(graph, walked.from)

\* C22: get_commits_by_range(from, to), from absent or an ancestor of to, returns
\* each commit that is reachable from to and not from from, once, and no other
RangeIsDifference ==
    walked.on =>
        /\ Range(walked.result) = RangeExpected
        /\ Len(walked.result) = Cardinality(RangeExpected)

\* what get_commits_by_range does return: commits reachable from to and not from
\* from, each once, to among them unless from = to, and all of them when from is
\* absent or when the commits between from and to have one parent each
RangeIsWithinDifference ==
    walked.on =>
        /\ Range(walked.result) \subseteq RangeExpected
        /\ Len(walked.result) = Cardinality(Range(walked.result))
        /\ walked.from \notin Range(walked.result)
        /\ walked.from # walked.to => walked.to \in Range(walked.result)
        /\ walked.from = NoCommit => Range(walked.result) = Reach(graph, walked.to)
        /\ (\A c \in RangeExpected : Len(graph[c].parents) <= 1) =>
              Range(walked.result) = RangeExpected

\* the branches a pass with the exclude set of the last call may write for
MayIndex(b) ==
    /\ b \notin {"stable", "origin/HEAD", "origin/stable", "retro-1", "origin/retro-1"}
    /\ b \notin lastOp.exclude

\* the rows the last pass added
NewCommitRows == commits \ lastOp.before.commits
NewHistoryRows ==
    {histories[i] : i \in (Len(lastOp.before.histories) + 1)..Len(histories)}

\* the commits from the latest History tip of b (before the pass) to its tip that
\* are not reachable from stable's tip
HandedTo(b) ==
    Range(get_commits_by_range(graph,
              get_latest_history(lastOp.before.histories, TreeName, b),
              lastOp.branches[b]))
    \ Reach(graph, lastOp.branches["stable"])

\* C23: a pass of update_package_testing adds Commit and History rows only for
\* branches that are not left out by name or excluded; the commits indexed under
\* such a branch are those from its latest History tip to its tip that are not
\* reachable from stable's tip, all of them, and none is reachable from stable
OnlyAheadIsIndexed ==
    lastOp.op = "testing" =>
        /\ \A r \in NewCommitRows \cup NewHistoryRows : MayIndex(r.branch)
        /\ \A r \in NewCommitRows :
              /\ r.commit_id \in HandedTo(r.branch)
              /\ r.commit_id \notin Reach(graph, lastOp.branches["stable"])
        /\ \A b \in DOMAIN lastOp.branches : MayIndex(b) =>
              /\ \A c \in HandedTo(b) :
                    Range(CommitRows(CommitInfos(graph, <<c>>), TreeName, b)) \subseteq commits
              /\ \E r \in NewHistoryRows :
                    r.branch = b /\ r.commit_id = lastOp.branches[b]

\* a second pass, with an exclude set, over a repository with a branch left out
\* by name, an excluded branch and a testing branch that has a new commit since
\* its History tip and commits it shares with stable
OnlyAheadIsIndexedSeen ==
    /\ lastOp.op = "testing"
    /\ lastOp.exclude # {}
    /\ {"wip", TopicBranch} \subseteq DOMAIN lastOp.branches
    /\ "retro-1" \in DOMAIN lastOp.branches
    /\ get_latest_history(lastOp.before.histories, TreeName, TopicBranch) # NoCommit
    /\ \E r \in NewCommitRows : r.branch = TopicBranch
    /\ Reach(graph, lastOp.branches[TopicBranch]) \cap Reach(graph, lastOp.branches["stable"]) # {}

\* the commits the branch in hand shares with the ordered part of the mainbranch
SharedCommits == (DOMAIN tpass.testing) \cap (DOMAIN tpass.main)

\* C24: the divergence ordinal of the branch in hand is the testing order of the
\* most recent commit it shares with the mainbranch, and every commit of the
\* branch with a smaller testing order is absent from the mainbranch map
LastIsDivergencePoint ==
    (tpass.on /\ tpass.branch # "") =>
        /\ \E c \in SharedCommits :
              /\ tpass.last = tpass.testing[c]
              /\ \A d \in SharedCommits : tpass.testing[c] <= tpass.testing[d]
        /\ \A c \in DOMAIN tpass.testing :
              tpass.testing[c] < tpass.last => c \notin DOMAIN tpass.main

\* what the divergence ordinal is: the testing order of the shared commit that is
\* last in the walk of the mainbranch, the oldest one
LastIsOldestShared ==
    (tpass.on /\ tpass.branch # "") =>
        \E c \in SharedCommits :
           /\ tpass.last = tpass.testing[c]
           /\ \A d \in SharedCommits : tpass.main[d] <= tpass.main[c]

\* C25: when update_testing_branch has ended, every PackageTesting row of the
\* repository's tree names a branch of the repository's branch list that was not
\* found outdated in the pass, and the rows of other trees are the ones there
\* were before the cleanup
CleanupLeavesCurrent ==
    (lastOp.op = "cleanup" /\ pc = "done") =>
        /\ \A r \in abbs.testing :
              r.tree = TreeName =>
                 (r.branch \in DOMAIN branches /\ r.branch \notin lastOp.outdated)
        /\ {r \in abbs.testing : r.tree # TreeName}
              = {r \in lastOp.before : r.tree # TreeName}

\* the cleanup deleted a row of a branch that is gone, with rows of the other
\* tree on that branch and on a branch the repository never had
CleanupLeavesCurrentSeen ==
    /\ lastOp.op = "cleanup" /\ pc = "done"
    /\ \E r \in lastOp.before : r.tree = TreeName /\ r.branch \notin DOMAIN branches
    /\ {OtherTreeRow(TopicBranch), OtherTreeRow("gone")} \subseteq abbs.testing

\* the cleanup deleted a row of a branch found outdated in the pass
CleanupOutdatedSeen ==
    /\ lastOp.op = "cleanup" /\ pc = "done"
    /\ \E r \in lastOp.before : r.tree = TreeName /\ r.branch \in lastOp.outdated

\* the rows of other names in every table of db
OtherNames(db, n) ==
    [packages |-> {r \in db.packages : r.name # n},
     fts |-> {r \in db.fts : r.name # n},
     changes |-> {r \in db.changes : r.package # n},
     versions |-> {r \in db.versions : r.package # n},
     spec |-> {r \in db.spec : r.package # n},
     deps |-> {r \in db.deps : r.package # n},
     errors |-> [e \in {x \in DOMAIN db.errors : x.package # n} |-> db.errors[e]],
     testing |-> {r \in db.testing : r.package # n},
     duplicate |-> {r \in db.duplicate : r.package # n}]

\* the rows of name n that belong to another tree, branch or (tree, branch) pair
\* than the store's
OutOfReach(db, self, n) ==
    [packages |-> {r \in db.packages : r.name = n /\ r.tree # self.tree},
     versions |-> {r \in db.versions : r.package = n /\ r.branch # self.branch},
     errors |-> [e \in {x \in DOMAIN db.errors :
                          x.package = n /\ <<x.tree, x.branch>> # <<self.tree, self.branch>>}
                   |-> db.errors[e]],
     testing |-> {r \in db.testing :
                    r.package = n /\ <<r.tree, r.branch>> # <<self.tree, self.branch>>}]

\* C26: delete_package(name) of a store bound to (T, B) leaves every row of every
\* other name, the Package row of name owned by another tree, the PackageVersion
\* rows of name on other branches, and the PackageError and PackageTesting rows
\* of name of other (tree, branch) pairs
DeleteLeavesOthers ==
    lastOp.op = "delete" =>
        /\ OtherNames(abbs, lastOp.name) = OtherNames(lastOp.before, lastOp.name)
        /\ OutOfReach(abbs, lastOp.self, lastOp.name)
              = OutOfReach(lastOp.before, lastOp.self, lastOp.name)

\* a delete_package that removed rows of the name while rows of another name, a
\* Package row of another tree, and PackageVersion, PackageError and
\* PackageTesting rows out of the store's reach were there
DeleteLeavesOthersSeen ==
    /\ lastOp.op = "delete"
    /\ abbs # lastOp.before
    /\ OtherNames(abbs, lastOp.name).packages # {}
    /\ OutOfReach(abbs, lastOp.self, lastOp.name).packages # {}
    /\ OutOfReach(abbs, lastOp.self, lastOp.name).versions # {}
    /\ OutOfReach(abbs, lastOp.self, lastOp.name).testing # {}
    /\ DOMAIN OutOfReach(abbs, lastOp.self, lastOp.name).errors # {}

\* the "defines" files of a tree below directory dir
DefinesBelow(tree, dir) ==
    {p \in DOMAIN tree : /\ Len(p) > Len(dir)
                          /\ SubSeq(p, 1, Len(dir)) = dir
                          /\ p[Len(p)] = "defines"}

\* the lengths of the ancestor directories of path that hold a "defines" file
DefinesAbove(tree, path) ==
    {k \in 0..(Len(path) - 1) : Append(SubSeq(path, 1, k), "defines") \in DOMAIN tree}

\* the paths a classification of path against tree is expected to give
ExpectedDefines(tree, path) ==
    CASE path[Len(path)] = "defines" -> {path}
      [] path[Len(path)] = "spec" -> DefinesBelow(tree, SubSeq(path, 1, Len(path) - 1))
      [] OTHER ->
           {Append(SubSeq(path, 1, k), "defines") :
              k \in {j \in DefinesAbove(tree, path) : \A l \in DefinesAbove(tree, path) : l <= j}}

\* the tree the inlined rules of add_commits look a delta up in: the commit's for
\* defines and spec, the base commit's for other paths
DeltaTree(e, base) ==
    IF e.path[Len(e.path)] \in {"defines", "spec"} THEN TreeOf(graph, e.commit_id)
    ELSE TreeOf(graph, base)

\* C27: path_to_defines_path gives [path] for a defines, every defines below the
\* parent directory in the commit's tree for a spec, and for another path the one
\* defines of the nearest ancestor directory that holds one, or nothing; calling
\* it again gives the same; the infos add_commits makes of a delta are of
\* defines paths the same rules give
ClassifierRules ==
    /\ lastOp.op = "classify" =>
          /\ Range(lastOp.result.paths)
                = ExpectedDefines(TreeOf(graph, lastOp.commit), lastOp.path)
          /\ Len(lastOp.result.paths) = Cardinality(Range(lastOp.result.paths))
          /\ lastOp.path[Len(lastOp.path)] \notin {"spec"} =>
                (Len(lastOp.result.paths) <= 1 /\ (lastOp.result.ok <=> Len(lastOp.result.paths) = 1))
          /\ lastOp.again = lastOp.result
    /\ (lastOp.op = "delta" /\ lastOp.base # NoCommit) =>
          {lastOp.infos[i].defines_path : i \in 1..Len(lastOp.infos)}
             \subseteq ExpectedDefines(DeltaTree(lastOp.delta, lastOp.base), lastOp.delta.path)

\* a second call, after a later push, for a file that has a defines in its
\* directory's parent and another further up
ClassifierRulesSeen ==
    /\ lastOp.op = "classify"
    /\ lastOp.calls = 2
    /\ lastOp.commit < Len(graph)
    /\ Cardinality(DefinesAbove(TreeOf(graph, lastOp.commit), lastOp.path)) = 2
    /\ lastOp.result.paths = <<DefDoc>>

\* a spec with two defines below its directory
ClassifierSpecSeen ==
    /\ lastOp.op = "classify"
    /\ lastOp.path = SpecDoc
    /\ Len(lastOp.result.paths) = 2

\* a file with no defines above it
ClassifierIgnoredSeen ==
    /\ lastOp.op = "classify"
    /\ lastOp.path = PatchDoc
    /\ ~lastOp.result.ok

\* a deleted file classified by add_commits against the parent's tree
ClassifierDeltaSeen ==
    /\ lastOp.op = "delta"
    /\ lastOp.delta.status = "Deleted"
    /\ lastOp.infos # << >>

\* the pass of update_testing_branch that has just ended went through infos of
\* the testing branch
OrderPassed == lastOp.op = "order" /\ lastOp.infos # << >> /\ pc = "done"

OrderTesting == scan_branch(graph, branches[TopicBranch], AllTake)
OrderLast == LastOrder(scan_branch(graph, Tip, MainTake), OrderTesting)

\* the rows the loop leaves when the commits are scanned in the given order
OrderRows(order) ==
    OrderBranch(lastOp.before, lastOp.infos, order,
                scan_branch(graph, Tip, MainTake), OrderTesting).rows

\* the infos of package p that may be written: on the branch, not above last and
\* below the order stored when the pass began
Writable(p) ==
    {i \in 1..Len(lastOp.infos) :
        /\ lastOp.infos[i].pkg_name = p
        /\ lastOp.infos[i].commit_id \in DOMAIN OrderTesting
        /\ OrderTesting[lastOp.infos[i].commit_id] <= OrderLast
        /\ OrderTesting[lastOp.infos[i].commit_id] <
              DbOrder(lastOp.before, OrderTesting, p, TreeName, TopicBranch)}

OwnRow(rows, p) ==
    {r \in rows : r.package = p /\ r.tree = TreeName /\ r.branch = TopicBranch}

RunSets == get_updated_packages(graph, histories, TreeName, MainBranch)

\* the names in both sets
InBothSets == {m.pkg.name : m \in RunSets.deleted} \cap {m.pkg.name : m \in RunSets.updated}

HasRows(db, n) ==
    /\ \E r \in db.packages : r.name = n
    /\ \E r \in db.versions : r.package = n
    /\ \E r \in db.spec : r.package = n

\* C29: while a name of the deleted set is still to be deleted, or is being
\* deleted, no package of the updated set has been handed to add_package; and
\* when the run returns, every package that was in both sets has its Package,
\* PackageVersion and PackageSpec rows
DeletesBeforeAdds ==
    /\ pc = "deleting" \/ (pc = "reconcile" /\ deleted # {}) =>
          updated = RunSets.updated
    /\ pc = "done" => \A n \in InBothSets : HasRows(abbs, n)

\* a run has returned whose window had a package in both sets
DeletesBeforeAddsSeen ==
    pc = "done" /\ InBothSets # {} /\ \A n \in InBothSets : HasRows(abbs, n)

\* the FtsPackage rows of a name
FtsOf(db, n) == {f \in db.fts : f.name = n}

\* C30: after every add_package and delete_package call of a store of either
\* tree, each Package row has exactly one FtsPackage row of its name, with its
\* description, and each FtsPackage row has a Package row of its name
FtsMatchesPackages ==
    /\ \A p \in abbs.packages :
          \E f \in FtsOf(abbs, p.name) :
             FtsOf(abbs, p.name) = {f} /\ f.description = p.description
    /\ \A f \in abbs.fts : \E p \in abbs.packages : p.name = f.name

\* the same for the packages of the tree whose store made the last call
FtsMatchesOwnPackages ==
    lastOp.op \in {"add", "delete"} =>
       \A p \in abbs.packages :
          p.tree = lastOp.self.tree /\ (lastOp.op = "delete" => p.name # lastOp.name) =>
             \E f \in FtsOf(abbs, p.name) :
                FtsOf(abbs, p.name) = {f} /\ f.description = p.description

====
